---------------------------- MODULE Spec2Model ----------------------------
(***************************************************************************)
(* Flight schedule parser and query tool: the validator                    *)
(* (src/validator.py), the query engine (src/query_engine.py) and the CSV  *)
(* parser (src/parser.py).                                                 *)
(*                                                                         *)
(* A Python str is a sequence of one-character strings, so that the        *)
(* parsers of the standard library the code calls (str.isalnum,            *)
(* datetime.strptime, float) are computed character by character.  The     *)
(* alphabet is ASCII.                                                      *)
(***************************************************************************)
EXTENDS Integers, Sequences, FiniteSets, TLC

(***************************************************************************)
(* Characters and str methods                                              *)
(***************************************************************************)
DigitSeq == <<"0", "1", "2", "3", "4", "5", "6", "7", "8", "9">>
UpperSeq == <<"A", "B", "C", "D", "E", "F", "G", "H", "I", "J", "K", "L", "M",
              "N", "O", "P", "Q", "R", "S", "T", "U", "V", "W", "X", "Y", "Z">>
LowerSeq == <<"a", "b", "c", "d", "e", "f", "g", "h", "i", "j", "k", "l", "m",
              "n", "o", "p", "q", "r", "s", "t", "u", "v", "w", "x", "y", "z">>

Range(f) == {f[i] : i \in DOMAIN f}

Digits == Range(DigitSeq)
Uppers == Range(UpperSeq)
Lowers == Range(LowerSeq)
\* str.isspace, and \s of re, on ASCII: space, \t, \n, \r, \f, and the
\* control characters 0x0b, 0x1c, 0x1d, 0x1e, 0x1f, written as themselves
Spaces == {" ", "\t", "\n", "\r", "\f", "", "", "", "", ""}

\* int() of one decimal digit
DigitVal(c) == (CHOOSE i \in DOMAIN DigitSeq : DigitSeq[i] = c) - 1

\* str.lower on one character
LowerChar(c) ==
    IF c \in Uppers
    THEN LowerSeq[CHOOSE i \in DOMAIN UpperSeq : UpperSeq[i] = c]
    ELSE c

LowerStr(s) == [i \in DOMAIN s |-> LowerChar(s[i])]

\* str.isalnum: non-empty, every character a letter or a digit
IsAlnum(s) ==
    /\ Len(s) > 0
    /\ \A i \in DOMAIN s : s[i] \in Digits \cup Uppers \cup Lowers

\* str.isalpha: non-empty, every character a letter
IsAlpha(s) ==
    /\ Len(s) > 0
    /\ \A i \in DOMAIN s : s[i] \in Uppers \cup Lowers

\* str.isupper: at least one cased character and no lowercase one
IsUpper(s) ==
    /\ \E i \in DOMAIN s : s[i] \in Uppers
    /\ \A i \in DOMAIN s : s[i] \notin Lowers

AllDigits(s) == \A i \in DOMAIN s : s[i] \in Digits

\* int() of a string of decimal digits
RECURSIVE ToInt(_)
ToInt(s) ==
    IF Len(s) = 0 THEN 0
    ELSE 10 * ToInt(SubSeq(s, 1, Len(s) - 1)) + DigitVal(s[Len(s)])

\* str.lstrip(), str.rstrip(), str.strip()
LStrip(s) ==
    IF \A i \in DOMAIN s : s[i] \in Spaces THEN <<>>
    ELSE SubSeq(s, CHOOSE i \in DOMAIN s :
                       s[i] \notin Spaces /\ \A j \in 1..(i - 1) : s[j] \in Spaces,
                Len(s))

RStrip(s) ==
    IF \A i \in DOMAIN s : s[i] \in Spaces THEN <<>>
    ELSE SubSeq(s, 1, CHOOSE i \in DOMAIN s :
                          s[i] \notin Spaces /\ \A j \in (i + 1)..Len(s) : s[j] \in Spaces)

Strip(s) == LStrip(RStrip(s))

\* str.startswith
StartsWith(s, p) == Len(s) >= Len(p) /\ SubSeq(s, 1, Len(p)) = p

\* `p in s` for two strings: p is a substring of s
IsSubstring(p, s) ==
    \E i \in 0..(Len(s) - Len(p)) : SubSeq(s, i + 1, i + Len(p)) = p

(***************************************************************************)
(* datetime.strptime                                                       *)
(*                                                                         *)
(* _strptime turns the format into a regular expression, matches it at the *)
(* start of the string and rejects unconverted data after the match:       *)
(*   %m  1[0-2]|0[1-9]|[1-9]        %d  3[0-1]|[1-2]\d|0[1-9]|[1-9]| [1-9]  *)
(*   %Y  \d\d\d\d                   %H  2[0-3]|[0-1]\d|\d                   *)
(*   %M  [0-5]\d|\d                 ' ' \s+                                 *)
(* then builds the datetime, which rejects year 0 and a day that the month *)
(* does not have.  In both formats of this program every numeric field is  *)
(* followed by a literal separator or by the end of the string, so the     *)
(* match is a full match of the string field by field.                     *)
(***************************************************************************)
Match_m(s) ==
    /\ AllDigits(s)
    /\ \/ Len(s) = 2 /\ s[1] = "1" /\ s[2] \in {"0", "1", "2"}
       \/ Len(s) = 2 /\ s[1] = "0" /\ s[2] # "0"
       \/ Len(s) = 1 /\ s[1] # "0"

Match_d(s) ==
    \/ /\ AllDigits(s)
       /\ \/ Len(s) = 2 /\ s[1] = "3" /\ s[2] \in {"0", "1"}
          \/ Len(s) = 2 /\ s[1] \in {"1", "2"}
          \/ Len(s) = 2 /\ s[1] = "0" /\ s[2] # "0"
          \/ Len(s) = 1 /\ s[1] # "0"
    \/ Len(s) = 2 /\ s[1] = " " /\ s[2] \in Digits \ {"0"}

Match_Y(s) == Len(s) = 4 /\ AllDigits(s)

Match_H(s) ==
    /\ AllDigits(s)
    /\ \/ Len(s) = 2 /\ s[1] = "2" /\ s[2] \in {"0", "1", "2", "3"}
       \/ Len(s) = 2 /\ s[1] \in {"0", "1"}
       \/ Len(s) = 1

Match_M(s) ==
    /\ AllDigits(s)
    /\ \/ Len(s) = 2 /\ s[1] \in {"0", "1", "2", "3", "4", "5"}
       \/ Len(s) = 1

\* \s+%H:%M matched against the whole of s: the sets of <<H, M>> it yields
TimeMatches(s) ==
    { <<ToInt(SubSeq(s, w + 1, c - 1)), ToInt(SubSeq(s, c + 1, Len(s)))>> :
        <<w, c>> \in
          { p \in (1..Len(s)) \X (1..Len(s)) :
              /\ p[1] < p[2]
              /\ \A i \in 1..p[1] : s[i] \in Spaces
              /\ s[p[2]] = ":"
              /\ Match_H(SubSeq(s, p[1] + 1, p[2] - 1))
              /\ Match_M(SubSeq(s, p[2] + 1, Len(s))) } }

\* int() of a %d field, which may be a space and a digit
DayInt(s) == IF s[1] = " " THEN ToInt(Tail(s)) ELSE ToInt(s)

\* a, sep, b, sep, then the rest: the splits <<i, j>> of s at two separators
TwoSeps(s, sep) ==
    { p \in (1..Len(s)) \X (1..Len(s)) :
        p[1] < p[2] /\ s[p[1]] = sep /\ s[p[2]] = sep }

\* The full matches of '%m/%d/%Y %H:%M', each <<Y, m, d, H, M>>
StorageMatches(s) ==
    UNION { { <<ToInt(SubSeq(s, p[2] + 1, p[2] + 4)),
                ToInt(SubSeq(s, 1, p[1] - 1)),
                DayInt(SubSeq(s, p[1] + 1, p[2] - 1)),
                hm[1], hm[2]>> :
              hm \in TimeMatches(SubSeq(s, p[2] + 5, Len(s))) } :
            p \in { q \in TwoSeps(s, "/") :
                      /\ Match_m(SubSeq(s, 1, q[1] - 1))
                      /\ Match_d(SubSeq(s, q[1] + 1, q[2] - 1))
                      /\ q[2] + 4 <= Len(s)
                      /\ Match_Y(SubSeq(s, q[2] + 1, q[2] + 4)) } }

\* The full matches of '%Y-%m-%d %H:%M', each <<Y, m, d, H, M>>
QueryMatches(s) ==
    UNION { { <<ToInt(SubSeq(s, 1, p[1] - 1)),
                ToInt(SubSeq(s, p[1] + 1, p[2] - 1)),
                DayInt(SubSeq(s, p[2] + 1, p[3])),
                hm[1], hm[2]>> :
              hm \in TimeMatches(SubSeq(s, p[3] + 1, Len(s))) } :
            p \in { <<q[1], q[2], e>> : <<q, e>> \in
                      { r \in TwoSeps(s, "-") \X (1..Len(s)) :
                          /\ Match_Y(SubSeq(s, 1, r[1][1] - 1))
                          /\ Match_m(SubSeq(s, r[1][1] + 1, r[1][2] - 1))
                          /\ r[2] > r[1][2]
                          /\ Match_d(SubSeq(s, r[1][2] + 1, r[2])) } } }

IsLeap(y) == y % 4 = 0 /\ (y % 100 # 0 \/ y % 400 = 0)

DaysInMonth(y, m) ==
    IF m = 2 THEN (IF IsLeap(y) THEN 29 ELSE 28)
    ELSE IF m \in {4, 6, 9, 11} THEN 30 ELSE 31

\* datetime(Y, m, d, H, M) raises ValueError outside these
ValidDate(dt) == dt[1] >= 1 /\ dt[3] <= DaysInMonth(dt[1], dt[2])

NoDate == <<0, 0, 0, 0, 0>>

\* Outcome of datetime.strptime on a set of regular-expression matches
StrptimeOf(matches) ==
    LET valid == {dt \in matches : ValidDate(dt)} IN
    IF valid # {}
    THEN [exc |-> "none", dt |-> CHOOSE dt \in valid : TRUE]
    ELSE [exc |-> "ValueError", dt |-> NoDate]

\* datetime.strptime(s, '%m/%d/%Y %H:%M') on a str
StrptimeStorage(s) == StrptimeOf(StorageMatches(s))

\* datetime.strptime(s, '%Y-%m-%d %H:%M') on a str
StrptimeQuery(s) == StrptimeOf(QueryMatches(s))

\* datetime.__lt__ / __le__ on <<Y, m, d, H, M>>
RECURSIVE TupleLess(_, _)
TupleLess(a, b) ==
    IF Len(a) = 0 THEN FALSE
    ELSE IF a[1] # b[1] THEN a[1] < b[1]
    ELSE TupleLess(Tail(a), Tail(b))

DtLess(a, b) == TupleLess(a, b)
DtLeq(a, b) == a = b \/ TupleLess(a, b)

(***************************************************************************)
(* float                                                                   *)
(*                                                                         *)
(* A float is [k, m, e]: k = "fin" for the finite value m * 10^e (m without *)
(* trailing zeros, e = 0 when m = 0), "inf", "ninf" or "nan".  float(str)   *)
(* strips whitespace, takes a sign, then inf / infinity / nan in any case   *)
(* or a decimal literal  digits [. digits] [e [sign] digits]  whose digit   *)
(* runs may hold single underscores between digits, rounded to the nearest  *)
(* double.  Mantissas are those of at most ten digits that fit the machine  *)
(* integer.                                                                 *)
(***************************************************************************)
RECURSIVE Pow10(_)
Pow10(n) == IF n = 0 THEN 1 ELSE 10 * Pow10(n - 1)

RECURSIVE NumDigits(_)
NumDigits(n) == IF n < 10 THEN 1 ELSE 1 + NumDigits(n \div 10)

Abs(n) == IF n < 0 THEN -n ELSE n

Fin(m, e) == [k |-> "fin", m |-> m, e |-> e]
FInf == [k |-> "inf", m |-> 0, e |-> 0]
FNegInf == [k |-> "ninf", m |-> 0, e |-> 0]
FNan == [k |-> "nan", m |-> 0, e |-> 0]

\* m * 10^e without the trailing zeros of m
RECURSIVE Canon(_, _)
Canon(m, e) ==
    IF m = 0 THEN Fin(0, 0)
    ELSE IF m % 10 = 0 THEN Canon(m \div 10, e + 1)
    ELSE Fin(m, e)

\* Position of the leading digit of a non-zero finite float
Adj(f) == f.e + NumDigits(Abs(f.m)) - 1

(***************************************************************************)
(* Natural numbers beyond the machine word, for the exact rounding below:  *)
(* a sequence of limbs in base 10000, least significant first.             *)
(***************************************************************************)
LimbAt(a, i) == IF i \in DOMAIN a THEN a[i] ELSE 0

\* One round of carries: every limb keeps its low part and takes the high
\* part of the limb below
CarryRound(v) ==
    [i \in 1..(Len(v) + 1) |-> (LimbAt(v, i) % 10000) + (LimbAt(v, i - 1) \div 10000)] \o <<>>

\* Whether a carry of 1 enters limb i of v, whose limbs are at most 10000:
\* from a limb of 10000 below through limbs of 9999
CarryInto(v, full, i) ==
    \E j \in full : j < i /\ \A t \in (j + 1)..(i - 1) : v[t] = 9999

Ripple(v, full) ==
    [i \in DOMAIN v |-> (v[i] + (IF CarryInto(v, full, i) THEN 1 ELSE 0)) % 10000] \o <<>>

RippleAll(v) == Ripple(v, {j \in DOMAIN v : v[j] = 10000})

\* The limbs of a sequence v of oversized limbs: three rounds leave limbs of
\* at most 10000
Carry(v) == RippleAll(CarryRound(CarryRound(CarryRound(v))))

BigOfInt(n) == Carry(<<n>>)

\* a * n for a natural n of the machine word
BigTimes(a, n) ==
    Carry([i \in 1..(Len(a) + 2) |->
               LimbAt(a, i) * (n % 10000)
             + LimbAt(a, i - 1) * ((n \div 10000) % 10000)
             + LimbAt(a, i - 2) * (n \div 100000000)] \o <<>>)

\* a * 10^z
BigShift(a, z) == [i \in 1..(z \div 4) |-> 0] \o BigTimes(a, Pow10(z % 4))

\* floor(a / 10000^q)
BigDrop(a, q) == SubSeq(a, q + 1, Len(a))

\* a < b: a has the smaller limb where the two differ highest
BigLessUpTo(a, b, n) ==
    \E i \in 1..n : /\ LimbAt(a, i) < LimbAt(b, i)
                    /\ \A j \in (i + 1)..n : LimbAt(a, j) = LimbAt(b, j)

BigLess(a, b) == BigLessUpTo(a, b, IF Len(a) < Len(b) THEN Len(b) ELSE Len(a))

\* The value of a, at most the largest machine integer
BigToInt(a) ==
    IF BigLess(BigOfInt(2147483647), a) THEN 2147483647
    ELSE LimbAt(a, 1) + 10000 * LimbAt(a, 2) + 100000000 * LimbAt(a, 3)

(***************************************************************************)
(* Rounding of a decimal to the nearest double, ties to even.              *)
(*                                                                         *)
(* The largest double is 2^1024 - 2^971 and a decimal rounds to inf from   *)
(* 2^1024 - 2^970 = 1.797693134862315807...e308 on.  Down to 1e-314 two    *)
(* decimals of at most ten digits never round to the same double, so the   *)
(* decimal stands for its double.  Below, doubles are the multiples of     *)
(* 2^-1074 = 4.94...e-324: the decimal x rounds to k * 2^-1074 with        *)
(* k = (floor(x / 2^-1075) + 1) div 2 (x is never a tie), and the double   *)
(* is written as repr writes it: the shortest decimal that rounds to it,   *)
(* the nearest one when several are as short.  x / 2^-1075 is              *)
(* x * 10^1075 / 5^1075.                                                   *)
(***************************************************************************)
Pow5_1075 ==
    <<8125, 3632, 6672, 1327, 9859, 5320, 3412, 3769, 1454, 2826, 3772, 2138,
       1396, 8545, 5131, 1028, 582, 497, 8324, 9496, 6679, 6948, 7918, 2547,
       836, 1369, 1893, 7255, 5550, 5244, 5657, 5599, 3027, 5628, 8792, 3885,
       9863, 3508, 6682, 8497, 7234, 186, 3891, 8042, 3732, 6239, 7963, 8818,
       3653, 1262, 5249, 6239, 9164, 3865, 1711, 6539, 487, 849, 5753, 5300,
       300, 9184, 4672, 1914, 8046, 1596, 4162, 7860, 7666, 4223, 6113, 5166,
       7458, 3553, 3405, 8951, 96, 6736, 6324, 4017, 5067, 577, 6193, 9677,
       9007, 3633, 4507, 7393, 3785, 2262, 8166, 2082, 4540, 9470, 9659, 9770,
       5499, 648, 3740, 56, 2722, 2728, 6465, 2276, 5746, 3579, 9726, 2465,
       5531, 7801, 3519, 8409, 3433, 9278, 1332, 5855, 2795, 1928, 631, 9037,
       9269, 8576, 15, 757, 5848, 8636, 3669, 6562, 2193, 8249, 5767, 3704,
       319, 5250, 5361, 9936, 284, 9318, 4435, 518, 4491, 8392, 9085, 3922,
       226, 1557, 6595, 5035, 631, 939, 539, 3980, 9387, 9819, 9698, 5177,
       2835, 4633, 8865, 2285, 3477, 8282, 8989, 9961, 817, 1818, 6499, 5932,
       437, 6351, 7753, 5033, 8412, 2792, 8221, 1623, 1307, 2990, 1825, 686,
       3411, 3964, 8284, 7208, 6232, 2920, 3282, 2470 >>

\* floor(m * 10^e / 2^-1075) below 10^9, digit by digit from 10^p down
HalfStepFits(A, n) == ~BigLess(A, BigTimes(Pow5_1075, n))

HalfStepDigit(A, p, q) ==
    CHOOSE d \in 0..9 :
        /\ d = 0 \/ HalfStepFits(A, q + d * Pow10(p))
        /\ d = 9 \/ ~HalfStepFits(A, q + (d + 1) * Pow10(p))

RECURSIVE HalfStepsFrom(_, _, _)
HalfStepsFrom(A, p, q) ==
    IF p < 0 THEN q
    ELSE HalfStepsFrom(A, p - 1, q + HalfStepDigit(A, p, q) * Pow10(p))

HalfSteps(m, e) == HalfStepsFrom(BigShift(BigOfInt(m), e + 1075), 8, 0)

\* floor(n * 2^-1075 / 1e-324), as limbs
UnitsOf(n) == BigDrop(BigTimes(BigTimes(Pow5_1075, n), 10), 188)

\* Number of significant digits of c
SigDigits(c) == NumDigits(Canon(c, 0).m)

\* The integers of lo..hi with the fewest significant digits
ShortestIn(lo, hi) ==
    {lo + s : s \in {t \in 0..(hi - lo) :
                      \A u \in 0..(hi - lo) : SigDigits(lo + t) <= SigDigits(lo + u)}}

\* The member of S nearest to a value v with floor vf, half == 1 when the
\* fraction of v is above one half and 0 when below
NearestIn(S, vf, half) ==
    CHOOSE c \in S : \A d \in S :
        \/ d = c
        \/ c < d /\ (c - vf) + (d - vf) >= half + 1
        \/ d < c /\ (c - vf) + (d - vf) < half + 1

\* The double k * 2^-1074, k > 0, in units of 1e-324
SubnormalUnits(k) ==
    NearestIn(ShortestIn(BigToInt(UnitsOf(2 * k - 1)) + 1, BigToInt(UnitsOf(2 * k + 1))),
              BigToInt(UnitsOf(2 * k)),
              IF BigLess(BigTimes(UnitsOf(2 * k), 2), UnitsOf(4 * k)) THEN 1 ELSE 0)

Subnormal(k) == IF k = 0 THEN Fin(0, 0) ELSE Canon(SubnormalUnits(k), -324)

\* Whether the positive canonical decimal c is 2^1024 - 2^970 or more
Overflows(c) ==
    \/ Adj(c) > 308
    \/ /\ Adj(c) = 308
       /\ \/ c.m \div Pow10(NumDigits(c.m) - 1) >= 2
          \/ c.m * Pow10(10 - NumDigits(c.m)) > 1797693134

\* The double of the positive canonical decimal c
RoundPositive(c) ==
    IF Overflows(c) THEN FInf
    ELSE IF Adj(c) < -324 THEN Fin(0, 0)
    ELSE IF Adj(c) > -315 \/ (Adj(c) = -315 /\ NumDigits(c.m) <= 9) THEN c
    ELSE Subnormal((HalfSteps(c.m, c.e) + 1) \div 2)

Negated(f) == IF f.k = "inf" THEN FNegInf ELSE Fin(-f.m, f.e)

RoundCanon(c) ==
    IF c.m = 0 THEN c
    ELSE IF c.m < 0 THEN Negated(RoundPositive(Fin(-c.m, c.e)))
    ELSE RoundPositive(c)

\* The double nearest to the decimal m * 10^e
ToDouble(m, e) == RoundCanon(Canon(m, e))

\* A run of digits with single underscores between digits
DigitPart(s) ==
    /\ Len(s) > 0
    /\ s[1] \in Digits /\ s[Len(s)] \in Digits
    /\ \A i \in DOMAIN s : s[i] \in Digits \cup {"_"}
    /\ \A i \in 1..(Len(s) - 1) : ~(s[i] = "_" /\ s[i + 1] = "_")

NoUnderscores(s) == SelectSeq(s, LAMBDA c : c # "_")

\* Index of the first character of s in set cs, 0 if none
FirstIn(s, cs) ==
    IF \E i \in DOMAIN s : s[i] \in cs
    THEN CHOOSE i \in DOMAIN s : s[i] \in cs /\ \A j \in 1..(i - 1) : s[j] \notin cs
    ELSE 0

\* The zeros a digit string starts and ends with
LeadingZeros(d) ==
    CHOOSE n \in 0..Len(d) :
        /\ \A i \in 1..n : d[i] = "0"
        /\ n = Len(d) \/ d[n + 1] # "0"

TrailingZeros(d) ==
    CHOOSE n \in 0..Len(d) :
        /\ \A i \in (Len(d) - n + 1)..Len(d) : d[i] = "0"
        /\ n = Len(d) \/ d[Len(d) - n] # "0"

\* The digits of d between its leading and trailing zeros
Significant(d) == SubSeq(d, LeadingZeros(d) + 1, Len(d) - TrailingZeros(d))

\* The exponent written with the digits d; one of more than seven digits
\* is beyond every double either way
ExponentInt(d) ==
    IF Len(d) - LeadingZeros(d) > 7 THEN 9999999
    ELSE ToInt(SubSeq(d, LeadingZeros(d) + 1, Len(d)))

\* An unsigned decimal literal with sign sgn (1 or -1) read exactly:
\* [ok, m, e] for the decimal m * 10^e
DecimalLiteral(body, sgn) ==
    LET ep == FirstIn(body, {"e", "E"})
        mant == IF ep = 0 THEN body ELSE SubSeq(body, 1, ep - 1)
        expo == IF ep = 0 THEN <<>> ELSE SubSeq(body, ep + 1, Len(body))
        esgn == IF Len(expo) > 0 /\ expo[1] = "-" THEN -1 ELSE 1
        edig == IF Len(expo) > 0 /\ expo[1] \in {"+", "-"} THEN Tail(expo) ELSE expo
        dp == FirstIn(mant, {"."})
        ip == IF dp = 0 THEN mant ELSE SubSeq(mant, 1, dp - 1)
        fp == IF dp = 0 THEN <<>> ELSE SubSeq(mant, dp + 1, Len(mant))
        ok == /\ ip = <<>> \/ DigitPart(ip)
              /\ fp = <<>> \/ DigitPart(fp)
              /\ ~(ip = <<>> /\ fp = <<>>)
              /\ ep = 0 \/ DigitPart(edig)
    IN  IF ~ok THEN [ok |-> FALSE, m |-> 0, e |-> 0]
        ELSE [ok |-> TRUE,
              m |-> sgn * ToInt(Significant(NoUnderscores(ip) \o NoUnderscores(fp))),
              e |-> esgn * ExponentInt(NoUnderscores(edig)) - Len(NoUnderscores(fp))
                    + TrailingZeros(NoUnderscores(ip) \o NoUnderscores(fp))]

S_inf == <<"i", "n", "f">>
S_infinity == <<"i", "n", "f", "i", "n", "i", "t", "y">>
S_nan == <<"n", "a", "n">>

\* The sign and the unsigned body of a stripped numeric literal
SignOf(t) == IF Len(t) > 0 /\ t[1] = "-" THEN -1 ELSE 1
BodyOf(t) == IF Len(t) > 0 /\ t[1] \in {"+", "-"} THEN Tail(t) ELSE t

\* The whitespace float() skips around an ASCII literal: that of the C
\* locale, without the separators 0x1c to 0x1f of str.isspace
FloatSpaces == {" ", "\t", "\n", "\r", "\f", ""}

FloatStrip(s) ==
    IF \A i \in DOMAIN s : s[i] \in FloatSpaces THEN <<>>
    ELSE SubSeq(s, CHOOSE i \in DOMAIN s :
                       s[i] \notin FloatSpaces /\ \A j \in 1..(i - 1) : s[j] \in FloatSpaces,
                   CHOOSE i \in DOMAIN s :
                       s[i] \notin FloatSpaces /\ \A j \in (i + 1)..Len(s) : s[j] \in FloatSpaces)

\* float(s) for a str s: [exc, val]
FloatOfStr(s) ==
    LET t == FloatStrip(s)
        body == LowerStr(BodyOf(t))
        dec == DecimalLiteral(BodyOf(t), SignOf(t))
    IN  IF body \in {S_inf, S_infinity}
        THEN [exc |-> "none", val |-> IF SignOf(t) = 1 THEN FInf ELSE FNegInf]
        ELSE IF body = S_nan
        THEN [exc |-> "none", val |-> FNan]
        ELSE IF dec.ok
        THEN [exc |-> "none", val |-> ToDouble(dec.m, dec.e)]
        ELSE [exc |-> "ValueError", val |-> FNan]

\* a < b for two positive finite floats
PosLess(a, b) ==
    IF Adj(a) # Adj(b) THEN Adj(a) < Adj(b)
    ELSE BigLess(BigShift(BigOfInt(a.m), a.e - (IF a.e < b.e THEN a.e ELSE b.e)),
                 BigShift(BigOfInt(b.m), b.e - (IF a.e < b.e THEN a.e ELSE b.e)))

\* a < b for two finite floats
FinLess(a, b) ==
    IF a.m <= 0 \/ b.m <= 0
    THEN IF a.m >= 0 /\ b.m <= 0 THEN FALSE
         ELSE IF a.m <= 0 /\ b.m >= 0 THEN TRUE
         ELSE PosLess(Fin(-b.m, b.e), Fin(-a.m, a.e))
    ELSE PosLess(a, b)

FRank(f) == IF f.k = "ninf" THEN 0 ELSE IF f.k = "inf" THEN 2 ELSE 1

\* float.__lt__: every comparison with nan is False
FloatLess(a, b) ==
    /\ a.k # "nan" /\ b.k # "nan"
    /\ \/ FRank(a) < FRank(b)
       \/ a.k = "fin" /\ b.k = "fin" /\ FinLess(a, b)

\* float.__eq__
FloatEq(a, b) == a.k # "nan" /\ b.k # "nan" /\ a = b

\* float.__le__
FloatLeq(a, b) == FloatLess(a, b) \/ FloatEq(a, b)

\* float.__gt__
FloatGreater(a, b) == FloatLess(b, a)

FZero == Fin(0, 0)

(***************************************************************************)
(* FlightValidator (src/validator.py)                                      *)
(*                                                                         *)
(* flight_data is a dict from field names to str: a function whose domain  *)
(* is the set of keys present.                                             *)
(***************************************************************************)
VALID_AIRPORTS ==
    { <<"L", "H", "R">>, <<"J", "F", "K">>, <<"F", "R", "A">>,
      <<"R", "I", "X">>, <<"O", "S", "L">>, <<"H", "E", "L">>,
      <<"A", "R", "N">>, <<"C", "D", "G">>, <<"D", "X", "B">>,
      <<"D", "O", "H">>, <<"S", "Y", "D">>, <<"A", "M", "S">>,
      <<"L", "A", "X">>, <<"B", "R", "U">>, <<"O", "R", "D">>,
      <<"A", "T", "L">>, <<"D", "F", "W">>, <<"D", "E", "N">>,
      <<"S", "F", "O">>, <<"S", "E", "A">>, <<"M", "I", "A">>,
      <<"M", "C", "O">>, <<"L", "A", "S">>, <<"P", "H", "X">>,
      <<"I", "A", "H">>, <<"E", "W", "R">>, <<"I", "S", "T">>,
      <<"C", "L", "T">>, <<"M", "S", "P">>, <<"D", "T", "W">>,
      <<"P", "H", "L">>, <<"L", "G", "A">>, <<"B", "O", "S">>,
      <<"S", "L", "C">>, <<"B", "W", "I">>, <<"T", "P", "A">>,
      <<"S", "A", "N">>, <<"P", "D", "X">>, <<"S", "T", "L">>,
      <<"H", "N", "L">>, <<"S", "V", "O">>, <<"L", "O", "N">> }

required_fields ==
    <<"flight_id", "origin", "destination",
      "departure_datetime", "arrival_datetime", "price">>

RequiredSet == Range(required_fields)

\* Concatenation of a sequence of sequences
RECURSIVE Flatten(_)
Flatten(ss) == IF Len(ss) = 0 THEN <<>> ELSE Head(ss) \o Flatten(Tail(ss))

\* [reason] when the check fails, [] when it passes
ErrorIf(failed, reason) == IF failed THEN <<reason>> ELSE <<>>

\* _validate_flight_id
MinIdLen == 2
MaxIdLen == 8

validate_flight_id(flight_id) ==
    IF flight_id = <<>> THEN FALSE
    ELSE IF Len(flight_id) < MinIdLen \/ Len(flight_id) > MaxIdLen THEN FALSE
    ELSE IsAlnum(flight_id)

\* _validate_airport_code
CodeLen == 3

validate_airport_code(code) ==
    IF code = <<>> THEN FALSE
    ELSE IF Len(code) # CodeLen THEN FALSE
    ELSE IF ~IsUpper(code) \/ ~IsAlpha(code) THEN FALSE
    ELSE code \in VALID_AIRPORTS

\* The loop over required_fields: the fields absent or empty, in order
AbsentOnly(fd) == SelectSeq(required_fields, LAMBDA f : f \notin DOMAIN fd)

MissingFields(fd) ==
    SelectSeq(required_fields, LAMBDA f : f \notin DOMAIN fd \/ fd[f] = <<>>)

MissingErrors(fd) ==
    LET missing == MissingFields(fd)
    IN  [i \in 1..Len(missing) |-> "missing " \o missing[i] \o " field"]

\* The two strptime calls and the comparison of their results
OrderWithoutGuard(dep, arr) ==
    ErrorIf(dep.exc # "none", "invalid departure datetime")
      \o ErrorIf(arr.exc # "none", "invalid arrival datetime")
      \o ErrorIf(DtLeq(arr.dt, dep.dt), "arrival before departure")

DatetimeErrors(dep, arr) ==
    ErrorIf(dep.exc # "none", "invalid departure datetime")
      \o ErrorIf(arr.exc # "none", "invalid arrival datetime")
      \o ErrorIf(dep.exc = "none" /\ arr.exc = "none" /\ DtLeq(arr.dt, dep.dt),
                 "arrival before departure")

\* float(price) and the comparison with 0
PriceErrors(price) ==
    LET f == FloatOfStr(price)
    IN  IF f.exc # "none" THEN <<"invalid price format">>
        ELSE ErrorIf(FloatLeq(f.val, FZero), "negative price value")

\* The checks that run once every required field is present
FieldErrors(fd) ==
    Flatten(<<
      ErrorIf(~validate_flight_id(fd["flight_id"]),
              "invalid flight_id (must be 2-8 alphanumeric characters)"),
      ErrorIf(~validate_airport_code(fd["origin"]), "invalid origin code"),
      ErrorIf(~validate_airport_code(fd["destination"]),
              "invalid destination code"),
      DatetimeErrors(StrptimeStorage(fd["departure_datetime"]),
                     StrptimeStorage(fd["arrival_datetime"])),
      PriceErrors(fd["price"]) >>)

\* The return statements of validate_flight
ValidateResult(missing, errors) ==
    IF missing # <<>> THEN [valid |-> FALSE, errors |-> missing]
    ELSE [valid |-> Len(errors) = 0, errors |-> errors]

\* validate_flight: (is_valid, error_messages)
validate_flight(fd) ==
    ValidateResult(MissingErrors(fd),
                   IF MissingFields(fd) = <<>> THEN FieldErrors(fd) ELSE <<>>)

(***************************************************************************)
(* Python values as json.load yields them and as the code builds them:     *)
(* str, float, int (exact, of any size), bool, None, list and dict.        *)
(* json.load makes an int of a number written without fraction and         *)
(* exponent and a float of any other, and every NaN it reads is one and    *)
(* the same float object.                                                  *)
(***************************************************************************)
Str(s) == [t |-> "str", s |-> s]
Num(f) == [t |-> "num", n |-> f]
PyInt(m, e) == [t |-> "int", n |-> Canon(m, e)]
Bool(b) == [t |-> "bool", b |-> b]
Null == [t |-> "null"]
List(items) == [t |-> "list", items |-> items]
Dict(d) == [t |-> "dict", d |-> d]

\* The empty dict
EmptyMap == [k \in {} |-> Null]

\* The integer an int or a bool is, as the decimal m * 10^e
NumOf(v) ==
    IF v.t = "int" THEN v.n ELSE IF v.b THEN Fin(1, 0) ELSE Fin(0, 0)

RECURSIVE OddPart(_)
OddPart(n) == IF n % 2 = 0 THEN OddPart(n \div 2) ELSE n

RECURSIVE Pow5(_)
Pow5(n) == IF n = 0 THEN 1 ELSE 5 * Pow5(n - 1)

\* Whether the double written f, finite, is the integer f.m * 10^f.e itself:
\* the odd part of m * 5^e is below 2^53 = 9007199254740992
ExactDouble(f) ==
    \/ f.m = 0
    \/ /\ f.e >= 0 /\ f.e <= 22
       /\ BigLess(BigTimes(BigTimes(BigOfInt(OddPart(Abs(f.m))),
                                    Pow5(IF f.e < 13 THEN f.e ELSE 13)),
                           Pow5(IF f.e < 13 THEN 0 ELSE f.e - 13)),
                  <<992, 5474, 1992, 9007>>)

\* float == int: the double is the integer exactly
FloatEqInt(f, n) == f.k = "fin" /\ f = n /\ ExactDouble(f)

\* == between float, int and bool
NumEq(a, b) ==
    IF a.t = "num" /\ b.t = "num" THEN FloatEq(a.n, b.n)
    ELSE IF a.t = "num" THEN FloatEqInt(a.n, NumOf(b))
    ELSE IF b.t = "num" THEN FloatEqInt(b.n, NumOf(a))
    ELSE NumOf(a) = NumOf(b)

\* The float NaN read by json.load
IsNaN(v) == v.t = "num" /\ v.n.k = "nan"

\* a == b.  Items of lists and values of dicts are compared by identity
\* first, so the NaN of json.load equals itself there and nowhere else
RECURSIVE PyEq(_, _)
PyEq(a, b) ==
    IF a.t \in {"num", "int", "bool"} /\ b.t \in {"num", "int", "bool"}
    THEN NumEq(a, b)
    ELSE IF a.t # b.t THEN FALSE
    ELSE IF a.t = "list"
    THEN /\ Len(a.items) = Len(b.items)
         /\ \A i \in DOMAIN a.items :
               \/ IsNaN(a.items[i]) /\ IsNaN(b.items[i])
               \/ PyEq(a.items[i], b.items[i])
    ELSE IF a.t = "dict"
    THEN /\ DOMAIN a.d = DOMAIN b.d
         /\ \A k \in DOMAIN a.d :
               \/ IsNaN(a.d[k]) /\ IsNaN(b.d[k])
               \/ PyEq(a.d[k], b.d[k])
    ELSE a = b

\* float(n) for the integer n: OverflowError from 2^1024 - 2^970 on
FloatOfInt(n) ==
    IF n.m # 0 /\ Overflows(Fin(Abs(n.m), n.e))
    THEN [exc |-> "OverflowError", val |-> FNan]
    ELSE [exc |-> "none", val |-> ToDouble(n.m, n.e)]

\* float(v): [exc, val]
FloatOf(v) ==
    IF v.t = "str" THEN FloatOfStr(v.s)
    ELSE IF v.t = "num" THEN [exc |-> "none", val |-> v.n]
    ELSE IF v.t \in {"int", "bool"} THEN FloatOfInt(NumOf(v))
    ELSE [exc |-> "TypeError", val |-> FNan]

\* datetime.strptime(v, '%Y-%m-%d %H:%M'): [exc, dt]
StrptimeQueryOf(v) ==
    IF v.t = "str" THEN StrptimeQuery(v.s)
    ELSE [exc |-> "TypeError", dt |-> NoDate]

\* convert_to_typed_flight: price becomes a float, the rest stays str
convert_to_typed_flight(fd) ==
    Dict([f \in RequiredSet |->
            IF f = "price" THEN Num(FloatOfStr(fd[f]).val) ELSE Str(fd[f])])

(***************************************************************************)
(* QueryEngine (src/query_engine.py)                                       *)
(*                                                                         *)
(* A step of _flight_matches_query ends in "pass" (go on to the next       *)
(* criterion), "False" (return False) or the name of the exception that    *)
(* leaves the function: the except clauses catch ValueError and KeyError   *)
(* only.                                                                   *)
(***************************************************************************)
FieldChars ==
    [flight_id |-> <<"f", "l", "i", "g", "h", "t", "_", "i", "d">>,
     origin |-> <<"o", "r", "i", "g", "i", "n">>,
     destination |-> <<"d", "e", "s", "t", "i", "n", "a", "t", "i", "o", "n">>,
     departure_datetime |->
       <<"d", "e", "p", "a", "r", "t", "u", "r", "e", "_",
         "d", "a", "t", "e", "t", "i", "m", "e">>,
     arrival_datetime |->
       <<"a", "r", "r", "i", "v", "a", "l", "_",
         "d", "a", "t", "e", "t", "i", "m", "e">>,
     price |-> <<"p", "r", "i", "c", "e">>]

\* `field in query` raises TypeError on a value that is no container
InRaises(query) == query.t \in {"num", "int", "bool", "null"}

\* `field in query`: a key of a dict, a substring of a str, an item of a list
HasKey(query, field) ==
    IF query.t = "dict" THEN field \in DOMAIN query.d
    ELSE IF query.t = "str" THEN IsSubstring(FieldChars[field], query.s)
    ELSE \E i \in DOMAIN query.items :
            PyEq(query.items[i], Str(FieldChars[field]))

\* flight.get(field)
Get(flight, field) ==
    IF field \in DOMAIN flight.d THEN flight.d[field] ELSE Null

\* One pass of the loop over exact_match_fields
ExactStep(flight, query, field) ==
    IF InRaises(query) THEN "TypeError"
    ELSE IF ~HasKey(query, field) THEN "pass"
    ELSE IF flight.t # "dict" THEN "AttributeError"
    ELSE IF query.t # "dict" THEN "TypeError"
    ELSE IF ~PyEq(Get(flight, field), query.d[field]) THEN "False"
    ELSE "pass"

\* flight[field], or None when the lookup raises
Lookup(flight, field) ==
    IF flight.t = "dict" /\ field \in DOMAIN flight.d
    THEN flight.d[field] ELSE Null

\* The try block of a datetime criterion once query[field] is read: q and f
\* are strptime of the query's and of the flight's value; after is TRUE for
\* departure_datetime (>=), FALSE for arrival_datetime (<=)
DatetimeCompare(q, f, flight, field, after) ==
    IF q.exc = "TypeError" THEN "TypeError"
    ELSE IF q.exc = "ValueError" THEN "False"
    ELSE IF flight.t # "dict" THEN "TypeError"
    ELSE IF field \notin DOMAIN flight.d THEN "False"
    ELSE IF f.exc = "TypeError" THEN "TypeError"
    ELSE IF f.exc = "ValueError" THEN "False"
    ELSE IF after
    THEN (IF DtLess(f.dt, q.dt) THEN "False" ELSE "pass")
    ELSE (IF DtLess(q.dt, f.dt) THEN "False" ELSE "pass")

DatetimeTry(flight, query, field, after) ==
    IF query.t # "dict" THEN "TypeError"
    ELSE DatetimeCompare(StrptimeQueryOf(query.d[field]),
                         StrptimeQueryOf(Lookup(flight, field)),
                         flight, field, after)

DatetimeStep(flight, query, field, after) ==
    IF InRaises(query) THEN "TypeError"
    ELSE IF ~HasKey(query, field) THEN "pass"
    ELSE DatetimeTry(flight, query, field, after)

\* The try block of the price criterion once query['price'] is read
PriceCompare(query_price, flight_price, flight) ==
    IF query_price.exc \in {"TypeError", "OverflowError"} THEN query_price.exc
    ELSE IF query_price.exc = "ValueError" THEN "False"
    ELSE IF flight.t # "dict" THEN "TypeError"
    ELSE IF "price" \notin DOMAIN flight.d THEN "False"
    ELSE IF flight_price.exc \in {"TypeError", "OverflowError"} THEN flight_price.exc
    ELSE IF flight_price.exc = "ValueError" THEN "False"
    ELSE IF FloatGreater(flight_price.val, query_price.val) THEN "False"
    ELSE "pass"

PriceTry(flight, query) ==
    IF query.t # "dict" THEN "TypeError"
    ELSE PriceCompare(FloatOf(query.d["price"]),
                      FloatOf(Lookup(flight, "price")), flight)

PriceStep(flight, query) ==
    IF InRaises(query) THEN "TypeError"
    ELSE IF ~HasKey(query, "price") THEN "pass"
    ELSE PriceTry(flight, query)

\* The criteria in the order the function runs them
MatchSteps(flight, query) ==
    << ExactStep(flight, query, "flight_id"),
       ExactStep(flight, query, "origin"),
       ExactStep(flight, query, "destination"),
       DatetimeStep(flight, query, "departure_datetime", TRUE),
       DatetimeStep(flight, query, "arrival_datetime", FALSE),
       PriceStep(flight, query) >>

\* The first step that does not pass decides; "pass" when all do
RECURSIVE FirstOutcome(_)
FirstOutcome(steps) ==
    IF Len(steps) = 0 THEN "pass"
    ELSE IF Head(steps) # "pass" THEN Head(steps)
    ELSE FirstOutcome(Tail(steps))

\* What the function returns or raises for the outcome of its steps
MatchResult(out) ==
    IF out = "pass" THEN [exc |-> "none", val |-> TRUE]
    ELSE IF out = "False" THEN [exc |-> "none", val |-> FALSE]
    ELSE [exc |-> out, val |-> FALSE]

\* _flight_matches_query: [exc, val]
flight_matches_query(flight, query) ==
    MatchResult(FirstOutcome(MatchSteps(flight, query)))

\* A loop that runs its body on each item in turn and appends to a list:
\* outs holds the outcome [exc, val] of each pass, kept[i] what pass i
\* appends.  The first pass that raises leaves the function.
Raised(outs) == {i \in DOMAIN outs : outs[i].exc # "none"}

Least(S) == CHOOSE i \in S : \A j \in S : i <= j

LoopResult(outs, kept) ==
    IF Raised(outs) # {}
    THEN [exc |-> outs[Least(Raised(outs))].exc, val |-> <<>>]
    ELSE [exc |-> "none", val |-> Flatten(kept)]

\* A loop that appends a matching flight unless an equal one came before
AppendMatchingOnce(outs, flights) ==
    LoopResult(outs, [i \in DOMAIN flights |->
                        IF outs[i].val /\ \A j \in 1..(i - 1) :
                                              flights[j] # flights[i]
                        THEN <<flights[i]>> ELSE <<>>])

\* matches.append(flight) for the flights that match
AppendMatching(outs, flights) ==
    LoopResult(outs, [i \in DOMAIN flights |->
                        IF outs[i].val THEN <<flights[i]>> ELSE <<>>])

\* execute_query: [exc, val], the loop over self.flights
execute_query(flights, query) ==
    AppendMatching([i \in DOMAIN flights |->
                       flight_matches_query(flights[i], query)],
                   flights)

\* A loop that appends a result only for a query with matches
AppendNonEmpty(outs, queries) ==
    LoopResult(outs, [i \in DOMAIN queries |->
                        IF outs[i].val = <<>> THEN <<>>
                        ELSE <<[query |-> queries[i],
                                matches |-> outs[i].val]>>])

\* results.append({'query': query, 'matches': matches})
AppendResults(outs, queries) ==
    LoopResult(outs, [i \in DOMAIN queries |->
                        <<[query |-> queries[i], matches |-> outs[i].val]>>])

\* The loop of execute_queries_from_file over the queries: [exc, val]
RunQueries(flights, queries) ==
    AppendResults([i \in DOMAIN queries |->
                      execute_query(flights, queries[i])],
                  queries)

\* execute_queries_from_file on the decoded content of the query file
execute_queries_from_file(flights, content) ==
    IF content.t # "dict" /\ content.t # "list"
    THEN [exc |-> "ValueError", val |-> <<>>]
    ELSE RunQueries(flights,
                    IF content.t = "dict" THEN <<content>> ELSE content.items)

(***************************************************************************)
(* CSVParser (src/parser.py)                                               *)
(*                                                                         *)
(* A file is the list f.readlines() gives: one str per line, its line      *)
(* terminator "\n" kept and no other "\n" or "\r" in it.  The reader       *)
(* raises csv.Error, the state "ERROR", for a field longer than            *)
(* csv.field_size_limit() and for a character after a line terminator.     *)
(* csv.reader(lines, skipinitialspace=True) is the state machine of the    *)
(* csv module with the excel dialect: it reads every line character by     *)
(* character, then the end of the line, and a row ends with the line       *)
(* unless a quoted field is open, which goes on with the next line.        *)
(***************************************************************************)
NewReader == [st |-> "START_RECORD", field |-> <<>>, fields |-> <<>>, rows |-> <<>>]

\* parse_save_field, then the state st
SaveField(s, st) == [s EXCEPT !.st = st, !.field = <<>>, !.fields = Append(@, s.field)]

\* csv.field_size_limit(), which the program leaves at its default
field_limit == 128 * 1024

\* parse_add_char, then the state st: csv.Error ("field larger than field
\* limit") when the field already holds field_limit characters
AddChar(s, c, st) ==
    IF Len(s.field) >= field_limit THEN [s EXCEPT !.st = "ERROR"]
    ELSE [s EXCEPT !.st = st, !.field = Append(@, c)]

EndOfLine == "EOL"

LineEnds == {"\n", "\r", EndOfLine}

AfterLineEnd(c) == IF c = EndOfLine THEN "START_RECORD" ELSE "EAT_CRNL"

StartField(s, c) ==
    IF c \in LineEnds THEN SaveField(s, AfterLineEnd(c))
    ELSE IF c = "\"" THEN [s EXCEPT !.st = "IN_QUOTED_FIELD"]
    ELSE IF c = " " THEN [s EXCEPT !.st = "START_FIELD"]
    ELSE IF c = "," THEN SaveField(s, "START_FIELD")
    ELSE AddChar(s, c, "IN_FIELD")

\* parse_process_char: the reader s after the character c
ProcessChar(s, c) ==
    IF s.st = "START_RECORD"
    THEN IF c = EndOfLine THEN s
         ELSE IF c \in LineEnds THEN [s EXCEPT !.st = "EAT_CRNL"]
         ELSE StartField(s, c)
    ELSE IF s.st = "START_FIELD" THEN StartField(s, c)
    ELSE IF s.st = "IN_FIELD"
    THEN IF c \in LineEnds THEN SaveField(s, AfterLineEnd(c))
         ELSE IF c = "," THEN SaveField(s, "START_FIELD")
         ELSE AddChar(s, c, "IN_FIELD")
    ELSE IF s.st = "IN_QUOTED_FIELD"
    THEN IF c = EndOfLine THEN s
         ELSE IF c = "\"" THEN [s EXCEPT !.st = "QUOTE_IN_QUOTED_FIELD"]
         ELSE AddChar(s, c, "IN_QUOTED_FIELD")
    ELSE IF s.st = "QUOTE_IN_QUOTED_FIELD"
    THEN IF c = "\"" THEN AddChar(s, c, "IN_QUOTED_FIELD")
         ELSE IF c = "," THEN SaveField(s, "START_FIELD")
         ELSE IF c \in LineEnds THEN SaveField(s, AfterLineEnd(c))
         ELSE AddChar(s, c, "IN_FIELD")
    ELSE IF s.st = "EAT_CRNL"
    THEN IF c = EndOfLine THEN [s EXCEPT !.st = "START_RECORD"]
         ELSE IF c \in LineEnds THEN s
         ELSE [s EXCEPT !.st = "ERROR"]
    ELSE s

\* The reader after the characters lo..hi of the line, read in order; the
\* reader stops at an error
RECURSIVE ProcessChars(_, _, _, _)
ProcessRest(s, line, lo, hi) ==
    IF s.st = "ERROR" THEN s ELSE ProcessChars(s, line, lo, hi)

ProcessChars(s, line, lo, hi) ==
    IF lo > hi THEN s
    ELSE IF lo = hi THEN ProcessChar(s, line[lo])
    ELSE ProcessRest(ProcessChars(s, line, lo, (lo + hi) \div 2),
                     line, (lo + hi) \div 2 + 1, hi)

\* Reader_iternext returns the row when the line ends outside a quoted field
EndRow(s) ==
    IF s.st = "START_RECORD"
    THEN [NewReader EXCEPT !.rows = Append(s.rows, s.fields)]
    ELSE s

ProcessLine(s, line) ==
    EndRow(ProcessChar(ProcessChars(s, line, 1, Len(line)), EndOfLine))

\* The reader after the lines lo..hi, read in order
RECURSIVE ProcessLines(_, _, _, _)
ProcessNext(s, lines, lo, hi) ==
    IF s.st = "ERROR" THEN s ELSE ProcessLines(s, lines, lo, hi)

ProcessLines(s, lines, lo, hi) ==
    IF lo > hi THEN s
    ELSE IF lo = hi THEN ProcessLine(s, lines[lo])
    ELSE ProcessNext(ProcessLines(s, lines, lo, (lo + hi) \div 2),
                     lines, (lo + hi) \div 2 + 1, hi)

\* At the end of the input an open quoted field closes the last row
EndInput(s) ==
    IF s.st = "IN_QUOTED_FIELD" \/ s.field # <<>>
    THEN Append(s.rows, Append(s.fields, s.field))
    ELSE s.rows

\* What reading to the end gave: [exc, val], csv.Error or the rows
ReaderResult(s) ==
    IF s.st = "ERROR" THEN [exc |-> "Error", val |-> <<>>]
    ELSE [exc |-> "none", val |-> EndInput(s)]

\* list(csv.reader(lines, skipinitialspace=True)): [exc, val]
ReaderRows(lines) ==
    ReaderResult(ProcessLines(NewReader, lines, 1, Len(lines)))

\* next(csv.reader([line], skipinitialspace=True)): [exc, val]
FirstRow(read) ==
    IF read.exc = "none" THEN [exc |-> "none", val |-> read.val[1]] ELSE read

CsvRow(line) == FirstRow(ReaderRows(<<line>>))

\* DictReader.fieldnames: the first row of the reader
FieldNames(rows) == IF rows = <<>> THEN <<>> ELSE rows[1]

\* csv.DictReader: the rows after the first, the empty ones skipped
DictReaderRows(rows) ==
    SelectSeq(IF rows = <<>> THEN <<>> ELSE Tail(rows), LAMBDA row : row # <<>>)

\* The columns named k
Columns(fieldnames, k) == {i \in DOMAIN fieldnames : fieldnames[i] = k}

Greatest(S) == CHOOSE i \in S : \A j \in S : j <= i

\* The keys of the row's dict whose stripped name is the field f: the
\* non-empty names of the header, each at its first column
KeysFor(fieldnames, f) ==
    {i \in DOMAIN fieldnames :
        /\ fieldnames[i] # <<>> /\ Strip(fieldnames[i]) = FieldChars[f]
        /\ i = Least(Columns(fieldnames, fieldnames[i]))}

\* The value DictReader gives the key k: that of its last column, None
\* when the row ends before one of its columns
RowValue(fieldnames, row, k) ==
    IF Greatest(Columns(fieldnames, k)) <= Len(row)
    THEN row[Greatest(Columns(fieldnames, k))] ELSE <<>>

\* flight_data: the cleaned dict of a row, kept to the keys that
\* validate_flight and convert_to_typed_flight read; of the keys that strip
\* to one name the last of the dict wins
CleanRow(fieldnames, row) ==
    [f \in {g \in RequiredSet : KeysFor(fieldnames, g) # {}} |->
        Strip(RowValue(fieldnames, row, fieldnames[Greatest(KeysFor(fieldnames, f))]))]

\* ', '.join(error_messages)
RECURSIVE JoinReasons(_)
JoinReasons(msgs) ==
    IF Len(msgs) = 0 THEN ""
    ELSE IF Len(msgs) = 1 THEN msgs[1]
    ELSE msgs[1] \o ", " \o JoinReasons(Tail(msgs))

ErrorEntry(line_num, raw_line, reason) ==
    [line_number |-> line_num, content |-> Strip(raw_line), reason |-> reason]

\* The branch on is_valid: what the pass appends to valid_flights and errors
RowOutcome(line_num, raw_line, flight_data, v) ==
    IF v.valid
    THEN [flights |-> <<convert_to_typed_flight(flight_data)>>,
          errors |-> <<>>]
    ELSE [flights |-> <<>>,
          errors |-> <<ErrorEntry(line_num, raw_line, JoinReasons(v.errors))>>]

ValidateRow(line_num, raw_line, flight_data) ==
    RowOutcome(line_num, raw_line, flight_data, validate_flight(flight_data))

\* One pass of the loop over zip(lines[1:], reader)
LinePass(line_num, raw_line, fieldnames, row) ==
    IF Strip(raw_line) = <<>> THEN [flights |-> <<>>, errors |-> <<>>]
    ELSE IF StartsWith(Strip(raw_line), <<"#">>)
    THEN [flights |-> <<>>,
          errors |-> <<ErrorEntry(line_num, raw_line,
                                  "comment line, ignored for data parsing")>>]
    ELSE ValidateRow(line_num, raw_line, CleanRow(fieldnames, row))

Min(a, b) == IF a < b THEN a ELSE b

\* zip stops at the shorter of lines[1:] and the rows of the reader
ZipPasses(lines, fieldnames, rows) ==
    [i \in 1..Min(Len(lines) - 1, Len(rows)) |->
        LinePass(i + 1, lines[i + 1], fieldnames, rows[i])]

CollectPasses(passes) ==
    [flights |-> Flatten([i \in DOMAIN passes |-> passes[i].flights]),
     errors |-> Flatten([i \in DOMAIN passes |-> passes[i].errors])]

\* The loop of parse_file over the rows csv.reader gives for the lines
ParseRows(lines, rows) ==
    CollectPasses(ZipPasses(lines, FieldNames(rows), DictReaderRows(rows)))

\* The loop reads the reader to its end: csv.Error leaves it, and the
\* except clause raises Exception("Error parsing CSV: ...") in its place
ParseRead(lines, read) ==
    IF read.exc # "none" THEN [exc |-> "Exception", val |-> <<>>]
    ELSE [exc |-> "none", val |-> ParseRows(lines, read.val)]

\* parse_file on the lines of a file: [exc, val], val being
\* (valid_flights, errors).  With no line after the first, zip ends before
\* it asks the reader for a row
parse_file(lines) ==
    IF Len(lines) <= 1
    THEN [exc |-> "none", val |-> [flights |-> <<>>, errors |-> <<>>]]
    ELSE ParseRead(lines, ReaderRows(lines))

\* A directory is a dict from file names to files.  sorted() orders the
\* paths by the code points of their names: the printable ASCII characters
\* a name can hold, in that order.
CharOrder ==
    << " ", "!", "\"", "#", "$", "%", "&", "'", "(", ")", "*", "+",
       ",", "-", ".", "0", "1", "2", "3", "4", "5", "6", "7", "8",
       "9", ":", ";", "<", "=", ">", "?", "@", "A", "B", "C", "D",
       "E", "F", "G", "H", "I", "J", "K", "L", "M", "N", "O", "P",
       "Q", "R", "S", "T", "U", "V", "W", "X", "Y", "Z", "[", "\\",
       "]", "^", "_", "a", "b", "c", "d", "e", "f", "g", "h",
       "i", "j", "k", "l", "m", "n", "o", "p", "q", "r", "s", "t",
       "u", "v", "w", "x", "y", "z", "{", "|", "}", "~" >>

CharCode(c) == CHOOSE i \in DOMAIN CharOrder : CharOrder[i] = c

RECURSIVE NameLess(_, _)
NameLess(a, b) ==
    IF Len(b) = 0 THEN FALSE
    ELSE IF Len(a) = 0 THEN TRUE
    ELSE IF a[1] # b[1] THEN CharCode(a[1]) < CharCode(b[1])
    ELSE NameLess(Tail(a), Tail(b))

EndsWith(s, p) ==
    Len(s) >= Len(p) /\ SubSeq(s, Len(s) - Len(p) + 1, Len(s)) = p

S_csv == <<".", "c", "s", "v">>

\* dir_path.glob('*.csv')
GlobCsv(listing) == {n \in DOMAIN listing : EndsWith(n, S_csv)}

\* The names of S in ascending order
Ascending(S) ==
    CHOOSE seq \in [1..Cardinality(S) -> S] :
        \A i, j \in 1..Cardinality(S) : i < j => NameLess(seq[i], seq[j])

Descending(S) ==
    CHOOSE seq \in [1..Cardinality(S) -> S] :
        \A i, j \in 1..Cardinality(S) : i < j => NameLess(seq[j], seq[i])

\* The paths of the glob in descending order of their names
ReverseNameOrder(listing) == Descending(GlobCsv(listing))

\* sorted(dir_path.glob('*.csv'))
csv_files(listing) == Ascending(GlobCsv(listing))

\* error['filename'] = csv_file.name
Tagged(errors, name) ==
    [i \in DOMAIN errors |->
        [line_number |-> errors[i].line_number, content |-> errors[i].content,
         reason |-> errors[i].reason, filename |-> name]]

\* One pass of the loop over csv_files: what it extends the lists with, or
\* the exception of parse_file, which leaves the loop
FilePass(parsed, name) ==
    IF parsed.exc # "none"
    THEN [exc |-> parsed.exc, flights |-> <<>>, errors |-> <<>>]
    ELSE [exc |-> "none", flights |-> parsed.val.flights,
          errors |-> Tagged(parsed.val.errors, name)]

\* The passes up to the first that raises
UntilRaise(passes) ==
    IF \E i \in DOMAIN passes : passes[i].exc # "none"
    THEN SubSeq(passes, 1,
                Least({i \in DOMAIN passes : passes[i].exc # "none"}))
    ELSE passes

DirectoryPasses(listing, files) ==
    UntilRaise([i \in DOMAIN files |->
                   FilePass(parse_file(listing[files[i]]), files[i])] \o <<>>)

\* What the loop leaves: the exception of its last pass or the lists
DirectoryResult(passes) ==
    IF passes # <<>> /\ passes[Len(passes)].exc # "none"
    THEN [exc |-> passes[Len(passes)].exc, val |-> <<>>]
    ELSE [exc |-> "none", val |-> CollectPasses(passes)]

\* parse_directory: [exc, val], val being (all_valid_flights, all_errors);
\* ValueError for a path that is no directory
parse_directory(dir) ==
    IF ~dir.exists THEN [exc |-> "ValueError", val |-> <<>>]
    ELSE DirectoryResult(DirectoryPasses(dir.files, csv_files(dir.files)))

(***************************************************************************)
(* JSONParser (src/parser.py)                                              *)
(*                                                                         *)
(* A JSON file is [exists, decodes, deep, data]: whether open() finds it,  *)
(* whether json.load decodes it, whether its lists and objects nest deeper *)
(* than the interpreter recurses (json.load then raises RecursionError),   *)
(* and the decoded value.                                                  *)
(***************************************************************************)
JsonFile(data) ==
    [exists |-> TRUE, decodes |-> TRUE, deep |-> FALSE, data |-> data]

NoJsonFile ==
    [exists |-> FALSE, decodes |-> FALSE, deep |-> FALSE, data |-> Null]

BadJsonFile ==
    [exists |-> TRUE, decodes |-> FALSE, deep |-> FALSE, data |-> Null]

DeepJsonFile ==
    [exists |-> TRUE, decodes |-> FALSE, deep |-> TRUE, data |-> Null]

\* JSONParser.load: [exc, val], the decoded list as it is.  The except
\* clauses turn JSONDecodeError into ValueError and let RecursionError through
load(file) ==
    IF ~file.exists THEN [exc |-> "FileNotFoundError", val |-> <<>>]
    ELSE IF file.deep THEN [exc |-> "RecursionError", val |-> <<>>]
    ELSE IF ~file.decodes THEN [exc |-> "ValueError", val |-> <<>>]
    ELSE IF file.data.t # "list" THEN [exc |-> "ValueError", val |-> <<>>]
    ELSE [exc |-> "none", val |-> file.data.items]

(***************************************************************************)
(* Input values                                                            *)
(***************************************************************************)
S_AB12 == <<"A", "B", "1", "2">>
S_A == <<"A">>
S_AB_12 == <<"A", "B", "-", "1", "2">>
S_ABCDEFGH9 == <<"A", "B", "C", "D", "E", "F", "G", "H", "9">>
S_LHR == <<"L", "H", "R">>
S_JFK == <<"J", "F", "K">>
S_lhr == <<"l", "h", "r">>
S_XYZ == <<"X", "Y", "Z">>
S_JF == <<"J", "F">>
D_Jan15_1000 == <<"0", "1", "/", "1", "5", "/", "2", "0", "2", "5", " ", "1", "0", ":", "0", "0">>
D_Jan15_1800 == <<"0", "1", "/", "1", "5", "/", "2", "0", "2", "5", " ", "1", "8", ":", "0", "0">>
D_Jan5_0905 == <<"1", "/", "5", "/", "2", "0", "2", "5", " ", "9", ":", "0", "5">>
D_Feb30 == <<"0", "2", "/", "3", "0", "/", "2", "0", "2", "5", " ", "1", "0", ":", "0", "0">>
D_Min60 == <<"0", "1", "/", "1", "5", "/", "2", "0", "2", "5", " ", "1", "0", ":", "6", "0">>
Q_Jan15_1000 == <<"2", "0", "2", "5", "-", "0", "1", "-", "1", "5", " ", "1", "0", ":", "0", "0">>
Q_Jan16_0000 == <<"2", "0", "2", "5", "-", "0", "1", "-", "1", "6", " ", "0", "0", ":", "0", "0">>
Q_Jan01_0000 == <<"2", "0", "2", "5", "-", "0", "1", "-", "0", "1", " ", "0", "0", ":", "0", "0">>
Q_Jan15_1800 == <<"2", "0", "2", "5", "-", "0", "1", "-", "1", "5", " ", "1", "8", ":", "0", "0">>
Q_Bad == <<"2", "0", "2", "5", "-", "1", "3", "-", "0", "1", " ", "0", "0", ":", "0", "0">>
P_450 == <<"4", "5", "0", ".", "0">>
P_500 == <<"5", "0", "0">>
P_neg10 == <<"-", "1", "0">>
P_0 == <<"0">>
P_abc == <<"a", "b", "c">>
P_nan == <<"n", "a", "n">>
P_inf == <<"i", "n", "f">>
\* Positive literals beyond the doubles, and a digit after a separator that
\* str.strip removes and float() does not
P_1e_400 == <<"1", "e", "-", "4", "0", "0">>
P_18e307 == <<"1", ".", "8", "e", "3", "0", "8">>
P_fs5 == <<"", "5">>
\* A unit separator between the date and the time
D_Jan15_1800_us == <<"0", "1", "/", "1", "5", "/", "2", "0", "2", "5", "", "1", "8", ":", "0", "0">>
S_CD34 == <<"C", "D", "3", "4">>
S_XX == <<"X", "X">>
S_abc == <<"a", "b", "c">>
S_price == <<"p", "r", "i", "c", "e">>

\* Marks a key that the dict does not hold
Absent == <<"(absent)">>

FlightIdPool == {Absent, <<>>, S_AB12, S_A, S_AB_12, S_ABCDEFGH9}
OriginPool == {Absent, <<>>, S_LHR, S_lhr, S_XYZ}
DestinationPool == {<<>>, S_JFK, S_JF}
DeparturePool == {<<>>, D_Jan15_1000, D_Jan15_1800, D_Feb30, Q_Jan15_1000}
ArrivalPool ==
    {Absent, D_Jan15_1000, D_Jan15_1800, D_Min60, D_Jan5_0905, D_Jan15_1800_us}
PricePool ==
    {Absent, <<>>, P_450, P_neg10, P_0, P_abc, P_nan, P_inf, P_1e_400,
     P_18e307, P_fs5}

\* The dict that holds the keys of r whose value is not the marker
DictWithout(r, marker) == [f \in {g \in DOMAIN r : r[g] # marker} |-> r[f]]

MakeDict(r) == DictWithout(r, Absent)

RawRecords ==
    { MakeDict(r) : r \in
        [flight_id : FlightIdPool, origin : OriginPool,
         destination : DestinationPool, departure_datetime : DeparturePool,
         arrival_datetime : ArrivalPool, price : PricePool] }

\* Raw records that the validator accepts, and their typed flights
RawAB12 ==
    [flight_id |-> S_AB12, origin |-> S_LHR, destination |-> S_JFK,
     departure_datetime |-> D_Jan15_1000, arrival_datetime |-> D_Jan15_1800,
     price |-> P_450]
RawCD34 ==
    [flight_id |-> S_CD34, origin |-> S_JFK, destination |-> S_LHR,
     departure_datetime |-> D_Jan5_0905, arrival_datetime |-> D_Jan15_1000,
     price |-> P_500]

F_AB12 == convert_to_typed_flight(RawAB12)
F_CD34 == convert_to_typed_flight(RawCD34)

\* Flights of a JSON database that was not written by this program:
\* datetimes in the query format, fields lacking, a price that is a str,
\* an element that is not an object
F_Iso ==
    Dict([flight_id |-> Str(S_AB12), origin |-> Str(S_LHR),
          destination |-> Str(S_JFK),
          departure_datetime |-> Str(Q_Jan15_1000),
          arrival_datetime |-> Str(Q_Jan15_1800),
          price |-> Num(Fin(45, 1))])
F_Partial ==
    Dict([flight_id |-> Str(S_AB12), origin |-> Str(S_LHR),
          departure_datetime |-> Str(Q_Jan15_1000), price |-> Str(P_abc)])
F_NotDict == Str(S_AB12)
\* A price written as a JSON integer; a flight_id that is a list holding NaN
\* and a price that is an integer beyond the doubles
F_IntPrice ==
    Dict([flight_id |-> Str(S_AB12), origin |-> Str(S_LHR),
          destination |-> Str(S_JFK),
          departure_datetime |-> Str(Q_Jan15_1000),
          arrival_datetime |-> Str(Q_Jan15_1800),
          price |-> PyInt(5, 2)])
\* The record of a row whose price is 'nan', which validate_flight accepts
F_NaN == convert_to_typed_flight([RawAB12 EXCEPT !["price"] = P_nan])
F_Odd ==
    Dict([flight_id |-> List(<<Num(FNan)>>), origin |-> Str(S_LHR),
          price |-> PyInt(1, 400)])

\* Dict queries: one value or no key for each criterion, and an unknown key
NoKey == [t |-> "(absent)"]

QueryDicts(fid, org, dst, dep, arr, prc, oth) ==
    { Dict(DictWithout(r, NoKey)) : r \in
        [flight_id : fid, origin : org, destination : dst,
         departure_datetime : dep, arrival_datetime : arr,
         price : prc, airline : oth] }

MatchFlightPool ==
    {F_AB12, F_CD34, F_Iso, F_Partial, F_NotDict, F_IntPrice, F_Odd, F_NaN}

MatchQueryPool ==
    QueryDicts({NoKey, Str(S_AB12), Null, List(<<Num(FNan)>>)},
               {NoKey, Str(S_LHR)},
               {NoKey, Str(S_JFK)},
               {NoKey, Str(Q_Jan01_0000), Str(Q_Jan16_0000),
                Str(D_Jan15_1000), Num(Fin(5, 0))},
               {NoKey, Str(Q_Jan15_1800), Str(Q_Bad)},
               {NoKey, Num(Fin(5, 2)), Num(Fin(4, 2)), Str(P_450),
                Str(P_abc), Null, List(<<>>), Bool(TRUE), PyInt(5, 2),
                PyInt(1, 400), Num(FNan), Str(P_nan)},
               {NoKey, Str(S_XX)})

\* Working sets of at most MaxFlights flights
MaxFlights == 3

SeqsUpTo(S, n) == UNION {[1..k -> S] : k \in 0..n}

WorkingSetPool == {F_AB12, F_CD34, F_Iso, F_Partial}
WorkingSets == SeqsUpTo(WorkingSetPool, MaxFlights)

Q_Empty == Dict(EmptyMap)
Q_Origin == Dict([origin |-> Str(S_LHR)])
Q_OriginPrice == Dict([origin |-> Str(S_LHR), price |-> Num(Fin(5, 2))])
Q_DepJan01 == Dict([departure_datetime |-> Str(Q_Jan01_0000)])
Q_DepJan16 == Dict([departure_datetime |-> Str(Q_Jan16_0000)])
Q_ArrJan15 == Dict([arrival_datetime |-> Str(Q_Jan15_1800)])
Q_ArrJan01 == Dict([arrival_datetime |-> Str(Q_Jan01_0000)])
Q_Price400 == Dict([price |-> Num(Fin(4, 2))])
Q_PriceNull == Dict([price |-> Null])
Q_Unknown == Dict([airline |-> Str(S_XX)])

ExecQueryPool ==
    {Q_Empty, Q_Origin, Q_OriginPrice, Q_DepJan01, Q_DepJan16, Q_ArrJan15,
     Q_ArrJan01, Q_Price400, Q_PriceNull, Q_Unknown}

\* Decoded query files: an object, a list of at most MaxQueries elements,
\* objects or not, or a value that is neither
MaxQueries == 2

FileElements ==
    {Q_Empty, Q_OriginPrice, Q_Price400, Q_PriceNull,
     Str(S_abc), Str(S_price), Num(Fin(5, 0)), Null, List(<<>>)}

FileContents ==
    {Q_Empty, Q_OriginPrice, Q_Price400, Q_PriceNull}
      \cup {List(items) : items \in SeqsUpTo(FileElements, MaxQueries)}
      \cup {Str(S_abc), Num(Fin(5, 0)), Null, Bool(TRUE)}

\* Lines of CSV files and names of files
L_Header ==
    <<"f", "l", "i", "g", "h", "t", "_", "i", "d", ",", "o", "r", "i", "g",
      "i", "n", ",", "d", "e", "s", "t", "i", "n", "a", "t", "i", "o", "n",
      ",", "d", "e", "p", "a", "r", "t", "u", "r", "e", "_", "d", "a", "t",
      "e", "t", "i", "m", "e", ",", "a", "r", "r", "i", "v", "a", "l", "_",
      "d", "a", "t", "e", "t", "i", "m", "e", ",", "p", "r", "i", "c", "e",
      "\n">>
L_AB12 ==
    <<"A", "B", "1", "2", ",", "L", "H", "R", ",", "J", "F", "K", ",", "0",
      "1", "/", "1", "5", "/", "2", "0", "2", "5", " ", "1", "0", ":", "0",
      "0", ",", "0", "1", "/", "1", "5", "/", "2", "0", "2", "5", " ", "1",
      "8", ":", "0", "0", ",", "4", "5", "0", ".", "0", "\n">>
L_CD34 ==
    <<"C", "D", "3", "4", ",", " ", "J", "F", "K", ",", " ", "L", "H", "R",
      ",", " ", "1", "/", "5", "/", "2", "0", "2", "5", " ", "9", ":", "0",
      "5", ",", " ", "0", "1", "/", "1", "5", "/", "2", "0", "2", "5", " ",
      "1", "0", ":", "0", "0", ",", " ", "5", "0", "0", "\n">>
L_Bad ==
    <<"A", ",", "L", "H", "R", ",", "X", "Y", "Z", ",", "0", "1", "/", "1",
      "5", "/", "2", "0", "2", "5", " ", "1", "8", ":", "0", "0", ",", "0",
      "1", "/", "1", "5", "/", "2", "0", "2", "5", " ", "1", "0", ":", "0",
      "0", ",", "-", "1", "0", "\n">>
\* Quoted fields, a vertical tab before the price and a unit separator
\* between the date and the time of the arrival
L_Quoted ==
    <<"\"", "E", "F", "5", "6", "\"", ",", "L", "H", "R", ",", "\"", "J", "F",
      "K", "\"", ",", "0", "1", "/", "1", "5", "/", "2", "0", "2", "5", " ",
      "1", "0", ":", "0", "0", ",", "0", "1", "/", "1", "5", "/", "2", "0",
      "2", "5", "", "1", "8", ":", "0", "0", ",", "", "4", "5", "0",
      ".", "0", "\n">>
L_Comment ==
    <<"#", " ", "h", "o", "l", "i", "d", "a", "y", " ", "s", "c", "h", "e",
      "d", "u", "l", "e", "\n">>
L_Blank ==
    <<"\n">>
\* One field, a character longer than the csv module allows
L_Long == [i \in 1..(field_limit + 1) |-> "a"] \o <<"\n">>
N_a_csv ==
    <<"a", ".", "c", "s", "v">>
N_b_csv ==
    <<"b", ".", "c", "s", "v">>
N_notes_txt ==
    <<"n", "o", "t", "e", "s", ".", "t", "x", "t">>

\* Files: the header line and at most MaxRows other lines
MaxRows == 3

RowPool == {L_AB12, L_CD34, L_Bad, L_Comment, L_Blank, L_Quoted}

CsvFiles == {<<L_Header>> \o rows : rows \in SeqsUpTo(RowPool, MaxRows)}

\* Marks a name that the directory does not hold
NoFile == << <<"(no file)">> >>

FileNames == {N_a_csv, N_b_csv, N_notes_txt}

\* The files b.csv is drawn from
SecondFiles ==
    { <<L_Header>>, <<L_Header, L_AB12, L_Comment>>, <<L_Header, L_Bad>>,
      <<L_Header, L_AB12, L_Blank, L_Bad, L_CD34>> }

Listings ==
    { DictWithout(r, NoFile) : r \in
        { f \in [{N_a_csv, N_b_csv} -> CsvFiles \cup SecondFiles \cup {NoFile}] :
            f[N_b_csv] \in SecondFiles \cup {NoFile} } }
      \cup
    { DictWithout(r, NoFile) : r \in
        [FileNames -> {NoFile, <<L_Header, L_AB12>>}] }

\* A path that is no directory, and the directories
NoDirectory == [exists |-> FALSE, files |-> EmptyMap]

\* Directories with the long line: after a header, where the reader meets
\* it, and as the only line of a file, where it does not
LongListings ==
    { (N_a_csv :> <<L_Header, L_AB12, L_Long>>),
      (N_a_csv :> <<L_Long>>) @@ (N_b_csv :> <<L_Header, L_AB12>>) }

Directories ==
    {[exists |-> TRUE, files |-> d] : d \in Listings \cup LongListings}

\* The command line: -j, -d and -q given with a path or not, -i given
\* with the name of a file of the directory or not
NoName == <<>>

NoArgs ==
    [json |-> FALSE, input |-> NoName, directory |-> FALSE, query |-> FALSE]

ArgsPool ==
    [json : BOOLEAN, input : {NoName, N_a_csv, N_b_csv}, directory : BOOLEAN,
     query : BOOLEAN]

\* JSON databases: written by the program, written by hand, no database
JsonDbPool ==
    { NoJsonFile, BadJsonFile, DeepJsonFile, JsonFile(F_AB12), JsonFile(List(<<>>)),
      JsonFile(List(<<F_AB12, F_CD34>>)), JsonFile(List(<<F_Iso>>)),
      JsonFile(List(<<F_AB12, F_Partial>>)), JsonFile(List(<<F_NotDict>>)) }

MainDirectories ==
    { NoDirectory,
      [exists |-> TRUE,
       files |-> (N_a_csv :> <<L_Header, L_AB12, L_Bad>>)
                   @@ (N_b_csv :> <<L_Header, L_CD34, L_Comment>>)],
      [exists |-> TRUE, files |-> (N_a_csv :> <<L_Header, L_Bad>>)],
      [exists |-> TRUE,
       files |-> (N_a_csv :> <<L_Header, L_Blank, L_Bad, L_CD34>>)],
      [exists |-> TRUE, files |-> (N_notes_txt :> <<L_Header, L_AB12>>)] }

\* Runs over the directory whose a.csv holds the long line: -i a.csv and -d
LongDirectory ==
    [exists |-> TRUE, files |-> (N_a_csv :> <<L_Header, L_AB12, L_Long>>)]

LongRuns ==
    { [json |-> FALSE, input |-> N_a_csv, directory |-> FALSE, query |-> TRUE],
      [json |-> FALSE, input |-> NoName, directory |-> TRUE, query |-> FALSE] }

MainQueryFiles ==
    { Q_OriginPrice, List(<<Q_Empty, Q_Price400>>), List(<<Null>>),
      Num(Fin(5, 0)) }

(***************************************************************************)
(* State: the arguments of the call in progress, the position of the call  *)
(* and the value it returned.                                              *)
(***************************************************************************)
VARIABLES
    pc,           \* "start", then the name of the function that returned
    flight_data,  \* the raw record given to validate_flight
    flights,      \* QueryEngine.flights, the working set
    flight,       \* the flight given to _flight_matches_query
    query,        \* the query given to _flight_matches_query, execute_query
    query_file,   \* the decoded content of the query file
    directory,    \* the directory given to parse_directory, with its files
    filepath,     \* the name of the file given to parse_file
    args,         \* the command line of main
    json_file,    \* the JSON database that -j names
    valid_flights,\* main: valid_flights
    errors,       \* main: errors
    written,      \* what main handed to save_json and save_errors
    ret           \* what the function returned or raised

vars ==
    <<pc, flight_data, flights, flight, query, query_file, directory, filepath,
      args, json_file, valid_flights, errors, written, ret>>

\* The variables of main
mainVars == <<args, json_file, valid_flights, errors, written>>

NothingWritten ==
    [db |-> <<"(not written)">>, errors_txt |-> <<"(not written)">>,
     response |-> <<"(not written)">>]

\* No run of main is in progress
MainIdle ==
    /\ args = NoArgs /\ json_file = NoJsonFile
    /\ valid_flights = <<>> /\ errors = <<>> /\ written = NothingWritten

NoValue == [none |-> TRUE]

(***************************************************************************)
(* validate_flight applied to a raw record                                 *)
(***************************************************************************)
InitValidate ==
    /\ pc = "start"
    /\ flight_data \in RawRecords
    /\ flights = <<>> /\ flight = Null /\ query = Null /\ query_file = Null
    /\ directory = NoDirectory /\ filepath = <<>>
    /\ MainIdle
    /\ ret = NoValue

ValidateFlight ==
    /\ pc = "start"
    /\ pc' = "validate_flight"
    /\ ret' = validate_flight(flight_data)
    /\ UNCHANGED <<flight_data, flights, flight, query, query_file, directory, filepath>>
    /\ UNCHANGED mainVars

NextValidate == ValidateFlight

SpecValidate == InitValidate /\ [][NextValidate]_vars

(***************************************************************************)
(* _flight_matches_query applied to a flight and a query                   *)
(***************************************************************************)
InitMatch ==
    /\ pc = "start"
    /\ flight \in MatchFlightPool
    /\ query \in MatchQueryPool
    /\ flight_data = EmptyMap /\ flights = <<>> /\ query_file = Null
    /\ directory = NoDirectory /\ filepath = <<>>
    /\ MainIdle
    /\ ret = NoValue

FlightMatchesQuery ==
    /\ pc = "start"
    /\ pc' = "_flight_matches_query"
    /\ ret' = flight_matches_query(flight, query)
    /\ UNCHANGED <<flight_data, flights, flight, query, query_file, directory, filepath>>
    /\ UNCHANGED mainVars

NextMatch == FlightMatchesQuery

SpecMatch == InitMatch /\ [][NextMatch]_vars

(***************************************************************************)
(* A QueryEngine built on a working set, and its two public methods        *)
(***************************************************************************)
InitQuery ==
    /\ pc = "start"
    /\ flights \in WorkingSets
    /\ flight_data = EmptyMap /\ flight = Null
    /\ query = Null /\ query_file = Null
    /\ directory = NoDirectory /\ filepath = <<>>
    /\ MainIdle
    /\ ret = NoValue

ExecuteQuery ==
    /\ pc = "start"
    /\ \E q \in ExecQueryPool :
          /\ query' = q
          /\ ret' = execute_query(flights, q)
    /\ pc' = "execute_query"
    /\ UNCHANGED <<flight_data, flights, flight, query_file, directory, filepath>>
    /\ UNCHANGED mainVars

ExecuteQueriesFromFile ==
    /\ pc = "start"
    /\ \E content \in FileContents :
          /\ query_file' = content
          /\ ret' = execute_queries_from_file(flights, content)
    /\ pc' = "execute_queries_from_file"
    /\ UNCHANGED <<flight_data, flights, flight, query, directory, filepath>>
    /\ UNCHANGED mainVars

NextQuery == ExecuteQuery \/ ExecuteQueriesFromFile

SpecQuery == InitQuery /\ [][NextQuery]_vars

(***************************************************************************)
(* CSVParser applied to a directory and to one of its files                *)
(***************************************************************************)
InitParse ==
    /\ pc = "start"
    /\ directory \in Directories \cup {NoDirectory}
    /\ filepath = <<>>
    /\ flight_data = EmptyMap /\ flights = <<>> /\ flight = Null
    /\ query = Null /\ query_file = Null
    /\ MainIdle
    /\ ret = NoValue

ParseDirectory ==
    /\ pc = "start"
    /\ pc' = "parse_directory"
    /\ ret' = parse_directory(directory)
    /\ UNCHANGED <<flight_data, flights, flight, query, query_file, directory,
                   filepath>>
    /\ UNCHANGED mainVars

\* open(filepath) raises FileNotFoundError, which parse_file lets through
ParseFile ==
    /\ pc = "start"
    /\ \E name \in FileNames :
          /\ filepath' = name
          /\ ret' = IF name \in DOMAIN directory.files
                    THEN parse_file(directory.files[name])
                    ELSE [exc |-> "FileNotFoundError", val |-> <<>>]
    /\ pc' = "parse_file"
    /\ UNCHANGED <<flight_data, flights, flight, query, query_file, directory>>
    /\ UNCHANGED mainVars

NextParse == ParseDirectory \/ ParseFile

SpecParse == InitParse /\ [][NextParse]_vars

(***************************************************************************)
(* main (src/flight_parser.py): step 1 builds valid_flights from the JSON  *)
(* database, from one CSV file or from a directory; step 2 builds a        *)
(* QueryEngine on valid_flights and runs the query file.  pc is "exit"     *)
(* after sys.exit(1) and "raised" after an exception main does not catch.  *)
(* The query file exists and decodes.                                      *)
(***************************************************************************)
InitMain ==
    /\ pc = "start"
    /\ \/ /\ args \in ArgsPool
          /\ json_file \in JsonDbPool
          /\ directory \in MainDirectories
          /\ query_file \in MainQueryFiles
       \/ /\ args \in LongRuns
          /\ json_file = NoJsonFile
          /\ directory = LongDirectory
          /\ query_file = Q_OriginPrice
    /\ valid_flights = <<>> /\ errors = <<>> /\ written = NothingWritten
    /\ filepath = <<>>
    /\ flight_data = EmptyMap /\ flights = <<>> /\ flight = Null
    /\ query = Null
    /\ ret = NoValue

\* save_json(valid_flights, args.output), save_errors if errors
Saved(parsed) ==
    [written EXCEPT !.db = parsed.flights,
                    !.errors_txt = IF parsed.errors # <<>> THEN parsed.errors
                                   ELSE @]

\* The branches -i and -d after the parser returned or raised
AfterParse(out) ==
    IF out.exc # "none"
    THEN /\ pc' = "raised"
         /\ ret' = out
         /\ UNCHANGED <<valid_flights, errors, written>>
    ELSE /\ pc' = "loaded"
         /\ valid_flights' = out.val.flights
         /\ errors' = out.val.errors
         /\ written' = Saved(out.val)
         /\ UNCHANGED ret

\* valid_flights = json_parser.load(args.json), sys.exit(1) if it raises
AfterLoad(out) ==
    /\ pc' = IF out.exc = "none" THEN "loaded" ELSE "exit"
    /\ valid_flights' = out.val
    /\ ret' = out

LoadJson ==
    /\ pc = "start"
    /\ args.json
    /\ AfterLoad(load(json_file))
    /\ UNCHANGED <<flight_data, flights, flight, query, query_file, directory,
                   filepath, args, json_file, errors, written>>

ParseInput ==
    /\ pc = "start"
    /\ ~args.json /\ args.input # NoName
    /\ filepath' = args.input
    /\ AfterParse(IF args.input \in DOMAIN directory.files
                  THEN parse_file(directory.files[args.input])
                  ELSE [exc |-> "FileNotFoundError", val |-> <<>>])
    /\ UNCHANGED <<flight_data, flights, flight, query, query_file, directory,
                   args, json_file>>

ParseAll ==
    /\ pc = "start"
    /\ ~args.json /\ args.input = NoName /\ args.directory
    /\ AfterParse(parse_directory(directory))
    /\ UNCHANGED <<flight_data, flights, flight, query, query_file, directory,
                   filepath, args, json_file>>

NoSource ==
    /\ pc = "start"
    /\ ~args.json /\ args.input = NoName /\ ~args.directory
    /\ pc' = "exit"
    /\ UNCHANGED <<flight_data, flights, flight, query, query_file, directory,
                   filepath, ret>>
    /\ UNCHANGED mainVars

NoQuery ==
    /\ pc = "loaded"
    /\ ~args.query
    /\ pc' = "done"
    /\ UNCHANGED <<flight_data, flights, flight, query, query_file, directory,
                   filepath, ret>>
    /\ UNCHANGED mainVars

NoFlights ==
    /\ pc = "loaded"
    /\ args.query /\ valid_flights = <<>>
    /\ pc' = "exit"
    /\ UNCHANGED <<flight_data, flights, flight, query, query_file, directory,
                   filepath, ret>>
    /\ UNCHANGED mainVars

\* query_engine = QueryEngine(valid_flights)
BuildEngine ==
    /\ pc = "loaded"
    /\ args.query /\ valid_flights # <<>>
    /\ flights' = valid_flights
    /\ pc' = "engine"
    /\ UNCHANGED <<flight_data, flight, query, query_file, directory,
                   filepath, ret>>
    /\ UNCHANGED mainVars

\* results = execute_queries_from_file(args.query), save_json(results, ...),
\* sys.exit(1) if it raises
AfterQueries(out) ==
    /\ ret' = out
    /\ pc' = IF out.exc = "none" THEN "done" ELSE "exit"
    /\ written' = IF out.exc = "none" THEN [written EXCEPT !.response = out.val]
                  ELSE written

ExecuteQueryFile ==
    /\ pc = "engine"
    /\ AfterQueries(execute_queries_from_file(flights, query_file))
    /\ UNCHANGED <<flight_data, flights, flight, query, query_file, directory,
                   filepath, args, json_file, valid_flights, errors>>

NextMain ==
    \/ LoadJson \/ ParseInput \/ ParseAll \/ NoSource
    \/ NoQuery \/ NoFlights \/ BuildEngine \/ ExecuteQueryFile

SpecMain == InitMain /\ [][NextMain]_vars

(***************************************************************************)
(* The record constraints as the data model states them                    *)
(***************************************************************************)
Letters == Uppers \cup Lowers

Present(fd, f) == f \in DOMAIN fd /\ fd[f] # <<>>

MissingSet(fd) == {f \in RequiredSet : ~Present(fd, f)}

FlightIdRule(s) ==
    Len(s) \in 2..8 /\ \A i \in DOMAIN s : s[i] \in Letters \cup Digits

AirportRule(s) ==
    Len(s) = 3 /\ (\A i \in DOMAIN s : s[i] \in Uppers) /\ s \in VALID_AIRPORTS

ParsesStorage(s) == StrptimeStorage(s).exc = "none"

\* The instant a parsed datetime denotes, in minutes (months and days padded)
Instant(dt) == (((dt[1] * 12 + dt[2]) * 31 + dt[3]) * 24 + dt[4]) * 60 + dt[5]

ArrivesAfterDeparture(fd) ==
    /\ ParsesStorage(fd["departure_datetime"])
    /\ ParsesStorage(fd["arrival_datetime"])
    /\ Instant(StrptimeStorage(fd["arrival_datetime"]).dt)
         > Instant(StrptimeStorage(fd["departure_datetime"]).dt)

\* The string is a decimal literal that denotes a real number above zero
PositiveReal(s) ==
    LET d == DecimalLiteral(BodyOf(FloatStrip(s)), SignOf(FloatStrip(s)))
    IN  d.ok /\ d.m > 0

\* Every constraint of a FlightRecord holds of the raw record
FlightRecordRules(fd) ==
    /\ MissingSet(fd) = {}
    /\ FlightIdRule(fd["flight_id"])
    /\ AirportRule(fd["origin"])
    /\ AirportRule(fd["destination"])
    /\ ArrivesAfterDeparture(fd)
    /\ PositiveReal(fd["price"])

Validated == pc = "validate_flight"

Elems(seq) == {seq[i] : i \in DOMAIN seq}

Count(seq, x) == Cardinality({i \in DOMAIN seq : seq[i] = x})

(***************************************************************************)
(* C1: validate_flight returns (True, []) if and only if the raw record    *)
(* has the six required fields present and non-empty, a flight_id of 2-8   *)
(* alphanumeric characters, an allow-listed origin and destination of 3    *)
(* uppercase letters, two datetimes that parse with arrival strictly later *)
(* than departure, and a price that is a real number strictly above zero,  *)
(* for every string value, 'nan' and 'inf' included.                       *)
(***************************************************************************)
C1_AcceptsIffRulesHold ==
    Validated =>
        ((ret.valid /\ ret.errors = <<>>) <=> FlightRecordRules(flight_data))

(***************************************************************************)
(* C2: when a required field is absent or empty, validate_flight fails and *)
(* its reasons are exactly one "missing <field> field" per missing field,  *)
(* and nothing else, whatever the fields that are present hold.            *)
(***************************************************************************)
MissingReason(f) == "missing " \o f \o " field"

C2_MissingFieldsOnly ==
    (Validated /\ MissingSet(flight_data) # {}) =>
        /\ ret.valid = FALSE
        /\ Len(ret.errors) = Cardinality(MissingSet(flight_data))
        /\ \A f \in MissingSet(flight_data) :
              Count(ret.errors, MissingReason(f)) = 1

\* Two fields are missing, one absent and one empty, beside invalid ones
C2_Witness ==
    /\ Validated
    /\ "price" \notin DOMAIN flight_data
    /\ "origin" \in DOMAIN flight_data /\ flight_data["origin"] = <<>>
    /\ "flight_id" \in DOMAIN flight_data /\ flight_data["flight_id"] = S_A
    /\ "arrival_datetime" \in DOMAIN flight_data
    /\ flight_data["arrival_datetime"] = D_Min60
    /\ ret.errors = <<"missing origin field", "missing price field">>

(***************************************************************************)
(* C3: with the six fields present, the reasons are the concatenation, in  *)
(* the order flight_id, origin, destination, departure format, arrival     *)
(* format, arrival-vs-departure, price, of one reason per failing check,   *)
(* each check decided on its own.  "arrival before departure" is there iff *)
(* both datetimes parse and arrival <= departure, so never beside a        *)
(* datetime format reason, and at most one price reason is there.          *)
(***************************************************************************)
PriceReason(s) ==
    IF FloatOfStr(s).exc # "none" THEN <<"invalid price format">>
    ELSE IF FloatLeq(FloatOfStr(s).val, FZero) THEN <<"negative price value">>
    ELSE <<>>

ArrivalNotAfter(fd) ==
    /\ ParsesStorage(fd["departure_datetime"])
    /\ ParsesStorage(fd["arrival_datetime"])
    /\ Instant(StrptimeStorage(fd["arrival_datetime"]).dt)
         <= Instant(StrptimeStorage(fd["departure_datetime"]).dt)

ExpectedReasons(fd) ==
    (IF FlightIdRule(fd["flight_id"]) THEN <<>>
     ELSE <<"invalid flight_id (must be 2-8 alphanumeric characters)">>)
    \o (IF AirportRule(fd["origin"]) THEN <<>> ELSE <<"invalid origin code">>)
    \o (IF AirportRule(fd["destination"]) THEN <<>>
        ELSE <<"invalid destination code">>)
    \o (IF ParsesStorage(fd["departure_datetime"]) THEN <<>>
        ELSE <<"invalid departure datetime">>)
    \o (IF ParsesStorage(fd["arrival_datetime"]) THEN <<>>
        ELSE <<"invalid arrival datetime">>)
    \o (IF ArrivalNotAfter(fd) THEN <<"arrival before departure">> ELSE <<>>)
    \o PriceReason(fd["price"])

C3_ReasonsAccumulate ==
    (Validated /\ MissingSet(flight_data) = {}) =>
        /\ ret.errors = ExpectedReasons(flight_data)
        /\ ret.valid = (ret.errors = <<>>)
        /\ "arrival before departure" \in Elems(ret.errors)
              <=> ArrivalNotAfter(flight_data)
        /\ "arrival before departure" \in Elems(ret.errors) =>
              /\ "invalid departure datetime" \notin Elems(ret.errors)
              /\ "invalid arrival datetime" \notin Elems(ret.errors)
        /\ Count(ret.errors, "invalid price format")
             + Count(ret.errors, "negative price value") <= 1

\* Five checks fail at once, the ordering check and the price check included
C3_Witness ==
    /\ Validated
    /\ ret.errors =
         <<"invalid flight_id (must be 2-8 alphanumeric characters)",
           "invalid origin code", "invalid destination code",
           "arrival before departure", "negative price value">>

(***************************************************************************)
(* The matching rules as the design states them, for a flight that holds   *)
(* the six fields of a FlightRecord                                        *)
(***************************************************************************)
Matched == pc = "_flight_matches_query"

TextFields == RequiredSet \ {"price"}

FullRecord(f) ==
    /\ f.t = "dict"
    /\ RequiredSet \subseteq DOMAIN f.d
    /\ \A k \in TextFields : f.d[k].t = "str"
    /\ f.d["price"].t \in {"num", "int"}

ParsesQueryFormat(v) == v.t = "str" /\ StrptimeQuery(v.s).exc = "none"

QueryInstant(v) == Instant(StrptimeQuery(v.s).dt)

Coerces(v) == FloatOf(v).exc = "none"

\* Criterion k of the query passes on the flight
CriterionPasses(f, q, k) ==
    IF k \in {"flight_id", "origin", "destination"}
    THEN q.d[k].t = "str" /\ q.d[k].s = f.d[k].s
    ELSE IF k = "departure_datetime"
    THEN /\ ParsesQueryFormat(q.d[k]) /\ ParsesQueryFormat(f.d[k])
         /\ QueryInstant(f.d[k]) >= QueryInstant(q.d[k])
    ELSE IF k = "arrival_datetime"
    THEN /\ ParsesQueryFormat(q.d[k]) /\ ParsesQueryFormat(f.d[k])
         /\ QueryInstant(f.d[k]) <= QueryInstant(q.d[k])
    ELSE /\ Coerces(q.d[k]) /\ Coerces(f.d[k])
         /\ FloatLeq(FloatOf(f.d[k]).val, FloatOf(q.d[k]).val)

(***************************************************************************)
(* C4: _flight_matches_query returns True iff every criterion whose key is *)
(* in the query, among the six field names, passes; keys that are absent   *)
(* constrain nothing and unknown keys are ignored, so a query with no key, *)
(* or with unknown keys only, matches every record.                        *)
(***************************************************************************)
C4_AllPresentCriteria ==
    (Matched /\ FullRecord(flight)) =>
        ((ret.exc = "none" /\ ret.val)
            <=> \A k \in DOMAIN query.d \cap RequiredSet :
                    CriterionPasses(flight, query, k))

(***************************************************************************)
(* C5: for a record the validator accepted and a query whose only key is   *)
(* departure_datetime (arrival_datetime) with a well-formed value,         *)
(* execute_query includes the record iff it departs at or after (arrives   *)
(* at or before) the instant of the query.                                 *)
(***************************************************************************)
AcceptedFlights ==
    { convert_to_typed_flight(r) :
        r \in {x \in {RawAB12, RawCD34} : validate_flight(x).valid} }

StoredInstant(v) == Instant(StrptimeStorage(v.s).dt)

OnlyKey(q, k) ==
    q.t = "dict" /\ DOMAIN q.d = {k} /\ ParsesQueryFormat(q.d[k])

C5_DatetimeQueriesOnAccepted ==
    pc = "execute_query" =>
        \A i \in DOMAIN flights :
            flights[i] \in AcceptedFlights =>
                /\ OnlyKey(query, "departure_datetime") =>
                      (flights[i] \in Elems(ret.val)
                          <=> StoredInstant(flights[i].d["departure_datetime"])
                                >= QueryInstant(query.d["departure_datetime"]))
                /\ OnlyKey(query, "arrival_datetime") =>
                      (flights[i] \in Elems(ret.val)
                          <=> StoredInstant(flights[i].d["arrival_datetime"])
                                <= QueryInstant(query.d["arrival_datetime"]))

(***************************************************************************)
(* C6: _flight_matches_query is total and fails closed: for every record   *)
(* and every decoded query it returns a boolean and raises nothing, and a  *)
(* datetime or price criterion that cannot be parsed or coerced on either  *)
(* side makes the record a non-match.                                      *)
(***************************************************************************)
Unevaluable(f, q, k) ==
    /\ k \in DOMAIN q.d
    /\ IF k = "price"
       THEN ~Coerces(q.d[k]) \/ ~Coerces(Lookup(f, k))
       ELSE ~ParsesQueryFormat(q.d[k]) \/ ~ParsesQueryFormat(Lookup(f, k))

C6_TotalAndFailClosed ==
    (Matched /\ flight.t = "dict") =>
        /\ ret.exc = "none"
        /\ (\E k \in {"departure_datetime", "arrival_datetime", "price"} :
                Unevaluable(flight, query, k)) => ret.val = FALSE

(***************************************************************************)
(* C7: execute_query returns the records of the working set that           *)
(* _flight_matches_query accepts, in the order of the working set, with    *)
(* duplicates kept and nothing added, and leaves the working set and the   *)
(* query as they were.                                                     *)
(***************************************************************************)
MatchingIndices(fs, q) ==
    {i \in DOMAIN fs : flight_matches_query(fs[i], q).val}

\* out lists fs at the indices I, each once, in increasing order
SelectsInOrder(out, fs, I) ==
    /\ Len(out) = Cardinality(I)
    /\ \E idx \in [DOMAIN out -> I] :
          /\ \A a, b \in DOMAIN out : a < b => idx[a] < idx[b]
          /\ \A a \in DOMAIN out : out[a] = fs[idx[a]]

C7_OrderPreservingFilter ==
    [][pc' = "execute_query" =>
          /\ flights' = flights
          /\ query' \in ExecQueryPool
          /\ ret'.exc = "none" =>
                SelectsInOrder(ret'.val, flights,
                               MatchingIndices(flights, query'))]_vars

\* A duplicate around a record that does not match: both copies are kept
C7_Witness ==
    /\ pc = "execute_query"
    /\ flights = <<F_Iso, F_CD34, F_Iso>>
    /\ query = Q_OriginPrice
    /\ ret = [exc |-> "none", val |-> <<F_Iso, F_Iso>>]

(***************************************************************************)
(* C8: execute_queries_from_file returns one result per query of the file, *)
(* in file order, each pairing the query with execute_query(query); a file *)
(* that holds one object gives what the list of that one object gives.     *)
(***************************************************************************)
FileQueries(content) ==
    IF content.t = "dict" THEN <<content>> ELSE content.items

C8_OneResultPerQuery ==
    (pc = "execute_queries_from_file" /\ ret.exc = "none") =>
        /\ Len(ret.val) = Len(FileQueries(query_file))
        /\ \A i \in DOMAIN ret.val :
              /\ ret.val[i].query = FileQueries(query_file)[i]
              /\ ret.val[i].matches
                   = execute_query(flights, FileQueries(query_file)[i]).val
        /\ query_file.t = "dict" =>
              ret = execute_queries_from_file(flights, List(<<query_file>>))

\* Two queries with different matches, in file order
C8_Witness ==
    /\ pc = "execute_queries_from_file"
    /\ flights = <<F_AB12, F_CD34>>
    /\ query_file = List(<<Q_Price400, Q_OriginPrice>>)
    /\ ret = [exc |-> "none",
              val |-> <<[query |-> Q_Price400, matches |-> <<>>],
                        [query |-> Q_OriginPrice, matches |-> <<F_AB12>>]>>]

(***************************************************************************)
(* C9: execute_queries_from_file fails with the format error, a            *)
(* ValueError, and returns no results whenever the content is neither an   *)
(* object nor a list whose elements are all objects.                       *)
(***************************************************************************)
ObjectOrListOfObjects(content) ==
    \/ content.t = "dict"
    \/ /\ content.t = "list"
       /\ \A i \in DOMAIN content.items : content.items[i].t = "dict"

\* Stated for the working sets main builds an engine on, which hold a record
C9_FormatErrorOnNonObjects ==
    (/\ pc = "execute_queries_from_file"
     /\ flights # <<>>
     /\ ~ObjectOrListOfObjects(query_file))
        => ret = [exc |-> "ValueError", val |-> <<>>]

(***************************************************************************)
(* C10: parse_directory takes the CSV files of the directory in the order  *)
(* of their names: the accepted list is the concatenation, in that order,  *)
(* of the accepted records of each file, and the error list is the         *)
(* concatenation of the error entries of each file, each entry carrying    *)
(* the name of its file, so that entries are grouped by file and in input  *)
(* order within a file.                                                    *)
(***************************************************************************)
LeastName(S) == CHOOSE n \in S : \A m \in S \ {n} : NameLess(n, m)

RECURSIVE InNameOrder(_)
InNameOrder(S) ==
    IF S = {} THEN <<>>
    ELSE <<LeastName(S)>> \o InNameOrder(S \ {LeastName(S)})

CsvNames(listing) == {n \in DOMAIN listing : EndsWith(n, S_csv)}

WithoutFilename(e) ==
    [line_number |-> e.line_number, content |-> e.content, reason |-> e.reason]

\* For each error entry of the files taken in the order names, its file
OriginOfEntries(listing, names) ==
    Flatten([i \in DOMAIN names |->
               [j \in DOMAIN parse_file(listing[names[i]]).val.errors |->
                   names[i]]])

ConcatenatesFiles(out, listing, names) ==
    /\ out.flights
         = Flatten([i \in DOMAIN names |->
                       parse_file(listing[names[i]]).val.flights])
    /\ [k \in DOMAIN out.errors |-> WithoutFilename(out.errors[k])]
         = Flatten([i \in DOMAIN names |->
                       parse_file(listing[names[i]]).val.errors])
    /\ [k \in DOMAIN out.errors |-> out.errors[k].filename]
         = OriginOfEntries(listing, names)

GroupedInInputOrder(entries) ==
    \A j, k \in DOMAIN entries :
        j < k =>
            \/ NameLess(entries[j].filename, entries[k].filename)
            \/ /\ entries[j].filename = entries[k].filename
               /\ entries[j].line_number < entries[k].line_number

\* Every CSV file of the directory is one that parse_file returns from
EveryFileParses(listing) ==
    \A n \in CsvNames(listing) : parse_file(listing[n]).exc = "none"

C10_FilesInSortedNameOrder ==
    (pc = "parse_directory" /\ directory.exists) =>
        /\ ret.exc = "none" <=> EveryFileParses(directory.files)
        /\ ret.exc = "none" =>
              /\ ConcatenatesFiles(ret.val, directory.files,
                                   InNameOrder(CsvNames(directory.files)))
              /\ GroupedInInputOrder(ret.val.errors)

\* Two files, each with an accepted record and error entries; the records
\* and the entries of a.csv come before those of b.csv
C10_Witness ==
    /\ pc = "parse_directory"
    /\ DOMAIN directory.files = {N_a_csv, N_b_csv}
    /\ directory.files[N_a_csv] = <<L_Header, L_Bad, L_CD34>>
    /\ directory.files[N_b_csv] = <<L_Header, L_AB12, L_Comment>>
    /\ Len(ret.val.flights) = 2
    /\ ret.val.flights[1].d.flight_id = Str(S_CD34)
    /\ ret.val.flights[2].d.flight_id = Str(S_AB12)
    /\ Len(ret.val.errors) = 2
    /\ ret.val.errors[1].filename = N_a_csv
    /\ ret.val.errors[1].line_number = 2
    /\ ret.val.errors[2].filename = N_b_csv
    /\ ret.val.errors[2].line_number = 3

(***************************************************************************)
(* C11: parse_file, on a header line followed by data rows, comment lines  *)
(* and blank lines in any positions, validates every data row exactly once *)
(* and gives for it one accepted record or one error entry, gives one      *)
(* error entry for every comment line and nothing for a blank line, keeps  *)
(* the input order, and gives each error entry the line number and the     *)
(* text of the very row whose fields were validated.                       *)
(***************************************************************************)
ParsedLines == directory.files[filepath]

\* What line i of the file yields, its fields being those of the line itself
LineYield(lines, i) ==
    LinePass(i, lines[i], CsvRow(lines[1]).val, CsvRow(lines[i]).val)

YieldOfEveryLine(lines) ==
    CollectPasses([i \in 1..(Len(lines) - 1) |-> LineYield(lines, i + 1)])

C11_EveryRowOnce ==
    (pc = "parse_file" /\ filepath \in DOMAIN directory.files) =>
        /\ ret.exc = "none"
        /\ ret.val = YieldOfEveryLine(ParsedLines)

(***************************************************************************)
(* C12: in every run of main, whichever of -i, -d and -j builds the        *)
(* working set, every record of the working set handed to QueryEngine is   *)
(* an accepted record: it has the six fields and satisfies every           *)
(* constraint of a FlightRecord.                                           *)
(***************************************************************************)
StoredTexts(v) == [f \in TextFields |-> v.d[f].s]

AcceptedRecord(v) ==
    /\ FullRecord(v)
    /\ FlightIdRule(v.d["flight_id"].s)
    /\ AirportRule(v.d["origin"].s)
    /\ AirportRule(v.d["destination"].s)
    /\ ArrivesAfterDeparture(StoredTexts(v))
    /\ v.d["price"].n.k = "fin"
    /\ v.d["price"].n.m > 0

C12_WorkingSetAccepted ==
    pc = "engine" => \A i \in DOMAIN flights : AcceptedRecord(flights[i])

=============================================================================
